---- MODULE Spec2Model ----
(***************************************************************************)
(* Enterprise compliance obligation pipeline (compliance_chat/app).        *)
(* The LangGraph workflow of graph.py is a linear sequence of nodes over   *)
(* one shared ComplianceState; every node is one action.  The results of   *)
(* the external text-generation, embedding and retrieval services are the  *)
(* inputs of the actions, drawn from small sets.                           *)
(*                                                                         *)
(* Conventions: confidence scores and cosine similarities are percentages  *)
(* (0.90 is 90); an Optional value that is None is 0; an obligation id     *)
(* "OBL-0007" is the pair <<"OBL", 7>>; an error entry is a record of its  *)
(* fixed head and of the exception text that follows it.                   *)
(***************************************************************************)
EXTENDS Integers, Sequences, FiniteSets, TLC

(***************************************************************************)
(* Bounds of the model                                                     *)
(***************************************************************************)
MaxPlan == 1
MaxChunks == 1
MaxPerChunk == 1
MaxDetected == 3
MaxAtomic == 2
MaxObligations == 3
MaxClusterInput == 4
MaxMergeInput == 4
MaxShuffled == 3
MaxBatchChunks == 2
MaxRetrievePlan == 2
MaxRetrieveIds == 3
MaxRetrieveMatches == 2
MaxIterations == 3

(***************************************************************************)
(* Program constants                                                       *)
(***************************************************************************)
ClusterThreshold == 85
ReviewThreshold == 90
PlanLimit == 15
DetectionLimit == 50
ExtractionLimit == 100
ApplicabilityLimit == 50
MinExcerptLength == 20

(***************************************************************************)
(* Value domains of the external services' answers                         *)
(***************************************************************************)
ConfidenceLevel == {"HIGH", "MEDIUM", "LOW"}
GateActions == {"CONTINUE", "BLOCK", "ESCALATE"}
SafetyActions == {"APPROVE", "REVIEW_REQUIRED", "BLOCK"}
Citations == {1, 2}
Subjects == {"ACL holders", "AFS licensees"}
Triggers == {"retail clients", "wholesale clients"}
Standards == {5, 7}
SimValues == {80, 85}
MatchScores == {70, 90}

\* The atomic obligations the extraction and scoring calls may answer with:
\* citation, subject, trigger, standard (years), confidence level and score.
Profile(c, s, t, y, l, p) ==
    [source_grounding |-> c, subject |-> s, trigger |-> t, standard |-> y,
     confidence_level |-> l, confidence_score |-> p]

Profiles ==
    { Profile(1, "ACL holders", "retail clients", 5, "HIGH", 95),
      Profile(1, "ACL holders", "retail clients", 7, "HIGH", 95),
      Profile(2, "ACL holders", "wholesale clients", 5, "MEDIUM", 65),
      Profile(2, "AFS licensees", "retail clients", 7, "LOW", 90) }

\* two of the profiles, for the stages entered with longer lists
MergeProfiles ==
    { Profile(1, "ACL holders", "retail clients", 5, "HIGH", 95),
      Profile(2, "ACL holders", "wholesale clients", 5, "MEDIUM", 65) }

\* len(verbatim_excerpt) of the source grounding a citation stands for;
\* citation 3 is an answer whose excerpt is too short to be a SourceGrounding
RawCitations == Citations \cup {3}
ExcerptLength == (1 :> 20) @@ (2 :> 48) @@ (3 :> 12)

\* what the two calls may answer before any validation: the profiles, one with
\* a short excerpt, and scores outside [0, 1] (ConfidenceScoring does not bound
\* its confidence_score)
RawProfiles ==
    Profiles \cup
    { Profile(3, "ACL holders", "retail clients", 5, "HIGH", 95),
      Profile(1, "ACL holders", "retail clients", 5, "HIGH", 120),
      Profile(2, "ACL holders", "wholesale clients", 5, "LOW", -10) }

\* SourceGrounding.verbatim_excerpt: Field(min_length=20)
SourceGroundingValid(c) == ExcerptLength[c] >= MinExcerptLength

\* EnterpriseObligation.confidence_score: Field(ge=0.0, le=1.0)
ScoreValid(p) == 0 <= p /\ p <= 100

\* no validation of the answers at all
ValidatesAnything(p) == TRUE

\* the answer passes the models' validation; otherwise the call or the
\* constructor raises inside the worker's try block
Validates(p) ==
    SourceGroundingValid(p.source_grounding) /\ ScoreValid(p.confidence_score)

(***************************************************************************)
(* Sequence helpers                                                        *)
(***************************************************************************)
Range(s) == { s[i] : i \in 1..Len(s) }

Min(a, b) == IF a < b THEN a ELSE b

\* s[:n] of Python
Prefix(s, n) == SubSeq(s, 1, Min(n, Len(s)))

\* s[n:] of Python
\* the remainder beyond the cap is never appended
SuffixDropped(s, n) == <<>>

Suffix(s, n) == SubSeq(s, Min(n, Len(s)) + 1, Len(s))

SeqsUpTo(S, n) == UNION { [1..k -> S] : k \in 0..n }

RECURSIVE ConcatAsPrepended(_)
\* each result put in front of the list instead of behind it
ConcatAsPrepended(ss) ==
    IF ss = <<>> THEN <<>> ELSE ConcatAsPrepended(Tail(ss)) \o Head(ss)

RECURSIVE Concat(_)
\* the concatenation of a sequence of sequences
Concat(ss) == IF ss = <<>> THEN <<>> ELSE Head(ss) \o Concat(Tail(ss))

RECURSIVE SortedSeq(_)
\* the elements of a finite set of integers in increasing order
SortedSeq(S) ==
    IF S = {} THEN <<>>
    ELSE LET m == CHOOSE x \in S : \A y \in S : x <= y
         IN  <<m>> \o SortedSeq(S \ {m})

(***************************************************************************)
(* The run state (models.py ComplianceState) and the workflow position     *)
(***************************************************************************)
VARIABLES
    pc,                     \* the node LangGraph runs next, "END" or "RAISED"
    query_context,
    plan,
    plan_validated,
    chunks,
    trust_check_passed,
    trust_flags,
    detected_obligations,   \* state["_detected_obligations"]
    detections,             \* detection: dispatched chunk -> the answer of its call
    obligations,
    similarity_matrix,      \* the matrix of the last clustering
    clusters,               \* the clusters of the last normalization
    canonical_obligations,
    review_packages,
    final_output,
    errors,
    should_continue,
    futures,                \* atomic extraction: items submitted, not yet resolved
    resolved,               \* atomic extraction: item -> its worker's return value
    final_obligations,      \* atomic extraction: the list gathered by the node
    executed,               \* the nodes run so far, in order
    gate,                   \* the action each trust gate answered with
    synthesis_failed,       \* the clusters whose synthesis call raised
    synthesis_calls,        \* the synthesis calls made: cluster, raised, should_merge
    analysis_raised,        \* the positions whose applicability call raised
    agent_state,            \* ReAct agent: the AgentState the workflow passes on
    agent_result,           \* ReAct agent: what ReactAgent.run returned
    response                \* what run_enterprise_compliance_system returned

vars == <<pc, query_context, plan, plan_validated, chunks, trust_check_passed,
          trust_flags, detected_obligations, detections, obligations, similarity_matrix,
          clusters, canonical_obligations, review_packages, final_output,
          errors, should_continue, futures, resolved, final_obligations,
          executed, gate, synthesis_failed, synthesis_calls, analysis_raised,
          agent_state, agent_result,
          response>>

planVars == <<query_context, plan, plan_validated, chunks>>
extractVars == <<futures, resolved, final_obligations>>
normVars == <<similarity_matrix, clusters, synthesis_failed, synthesis_calls>>
reactVars == <<agent_state, agent_result>>

ExcTexts == {"timeout"}

Err(head, text) == [head |-> head, text |-> text]

\* "BLOCKED" in entry
ContainsBLOCKED(e) == e.head = "BLOCKED"

NoGate == [posture |-> "NONE", privacy |-> "NONE", safety |-> "NONE"]

\* orchestrator.py initial_state
\* AgentState(query=query): the fields the think/act loop reads and writes.
\* all_chunks is the number of chunks gathered (0 or 1 for "some"), errors
\* the number of entries in the error list.
NewAgentState ==
    [iteration |-> 0, thoughts |-> <<>>, actions |-> <<>>, observations |-> <<>>,
     all_chunks |-> 0, final_answer |-> "", errors |-> 0]

InitialState ==
    /\ query_context = "None"
    /\ plan = <<>>
    /\ plan_validated = FALSE
    /\ chunks = <<>>
    /\ trust_check_passed = FALSE
    /\ trust_flags = <<>>
    /\ detected_obligations = <<>>
    /\ detections = <<>>
    /\ obligations = <<>>
    /\ canonical_obligations = <<>>
    /\ review_packages = <<>>
    /\ final_output = <<>>
    /\ errors = <<>>
    /\ should_continue = TRUE

Init ==
    /\ InitialState
    /\ pc = "query_understanding"
    /\ similarity_matrix = <<>>
    /\ clusters = <<>>
    /\ synthesis_failed = {}
    /\ synthesis_calls = {}
    /\ response = <<>>
    /\ analysis_raised = {}
    /\ agent_state = NewAgentState
    /\ agent_result = <<>>
    /\ futures = {}
    /\ resolved = <<>>
    /\ final_obligations = <<>>
    /\ executed = <<>>
    /\ gate = NoGate

\* a node has run: record it and move along the edge of graph.py
Step(node, next) ==
    /\ pc = node
    /\ pc' = next
    /\ executed' = Append(executed, node)
    /\ UNCHANGED <<response, analysis_raised, reactVars>>

(***************************************************************************)
(* Phase 1: understanding and planning                                     *)
(***************************************************************************)
query_understanding_agent ==
    /\ Step("query_understanding", "planning")
    /\ \/ /\ query_context' = "parsed"
          /\ UNCHANGED errors
       \/ \E x \in ExcTexts :
          /\ errors' = Append(errors, Err("Query understanding failed", x))
          /\ query_context' = "fallback"
    /\ UNCHANGED <<plan, plan_validated, chunks, trust_check_passed, trust_flags,
                   detected_obligations, detections, obligations, canonical_obligations,
                   review_packages, final_output, should_continue, gate>>
    /\ UNCHANGED <<extractVars, normVars>>

PlanItem(i) == [id |-> i, search_terms |-> "none", status |-> "pending"]

planning_agent ==
    /\ Step("planning", "scope_validation")
    /\ \/ \E n \in 0..MaxPlan :
          /\ plan' = [i \in 1..n |-> PlanItem(i)]
          /\ plan_validated' = FALSE
          /\ UNCHANGED errors
       \/ \E x \in ExcTexts :
          /\ errors' = Append(errors, Err("Planning failed", x))
          /\ plan' = <<>>
          /\ UNCHANGED plan_validated
    /\ UNCHANGED <<query_context, chunks, trust_check_passed, trust_flags,
                   detected_obligations, detections, obligations, canonical_obligations,
                   review_packages, final_output, should_continue, gate>>
    /\ UNCHANGED <<extractVars, normVars>>

regulatory_scope_validator ==
    /\ Step("scope_validation", "query_expansion")
    /\ \/ \E passed \in BOOLEAN :
          /\ plan_validated' = passed
          /\ UNCHANGED errors
       \/ \E x \in ExcTexts :
          /\ errors' = Append(errors, Err("Scope validation failed", x))
          /\ plan_validated' = TRUE
    /\ UNCHANGED <<query_context, plan, chunks, trust_check_passed, trust_flags,
                   detected_obligations, detections, obligations, canonical_obligations,
                   review_packages, final_output, should_continue, gate>>
    /\ UNCHANGED <<extractVars, normVars>>

(***************************************************************************)
(* Phase 2: retrieval                                                      *)
(***************************************************************************)
query_expansion_agent ==
    /\ Step("query_expansion", "hybrid_rag")
    /\ \E ok \in [1..Len(plan) -> BOOLEAN] :
          plan' = [i \in 1..Len(plan) |->
                     [plan[i] EXCEPT !.search_terms =
                         IF ok[i] THEN "expanded" ELSE "keywords"]]
    /\ UNCHANGED <<query_context, plan_validated, chunks, trust_check_passed,
                   trust_flags, detected_obligations, detections, obligations,
                   canonical_obligations, review_packages, final_output,
                   errors, should_continue, gate>>
    /\ UNCHANGED <<extractVars, normVars>>

\* One match of hybrid_search: parent is whether retrieve_parent_chunk finds
\* a text, metadata whether the match carries metadata (None otherwise).
Matches ==
    [id : 1..MaxChunks, score : MatchScores, parent : BOOLEAN, metadata : BOOLEAN]

\* the answers of one search: it raises, or it returns distinct matches
SearchResults ==
    {[raised |-> TRUE, matches |-> <<>>]} \cup
    { [raised |-> FALSE, matches |-> ms] :
        ms \in { s \in SeqsUpTo(Matches, MaxChunks) :
                   \A i, j \in 1..Len(s) : i # j => s[i].id # s[j].id } }

RECURSIVE ProcessMatchesUnseen(_, _, _)
\* the match loop without the test chunk_id in seen_chunk_ids
ProcessMatchesUnseen(ms, acc, seen) ==
    IF ms = <<>> THEN [chunks |-> acc, seen |-> seen, raised |-> FALSE]
    ELSE LET m == Head(ms) IN
         IF ~m.parent THEN ProcessMatchesUnseen(Tail(ms), acc, seen \cup {m.id})
         ELSE IF ~m.metadata
              THEN [chunks |-> acc, seen |-> seen \cup {m.id}, raised |-> TRUE]
         ELSE ProcessMatchesUnseen(Tail(ms),
                                   Append(acc, [id |-> m.id, score |-> m.score]),
                                   seen \cup {m.id})

RECURSIVE ProcessMatches(_, _, _)
\* the loop over the matches of one task: [chunks, seen, raised]
ProcessMatches(ms, acc, seen) ==
    IF ms = <<>> THEN [chunks |-> acc, seen |-> seen, raised |-> FALSE]
    ELSE LET m == Head(ms) IN
         IF m.id \in seen THEN ProcessMatches(Tail(ms), acc, seen)
         ELSE IF ~m.parent THEN ProcessMatches(Tail(ms), acc, seen \cup {m.id})
         ELSE IF ~m.metadata
              THEN [chunks |-> acc, seen |-> seen \cup {m.id}, raised |-> TRUE]
         ELSE ProcessMatches(Tail(ms),
                             Append(acc, [id |-> m.id, score |-> m.score]),
                             seen \cup {m.id})

RECURSIVE RunTasks(_, _, _, _, _, _)
\* the loop over plan[:15]: [plan, chunks, errors]
RunTasks(i, res, p, acc, seen, errs) ==
    IF i > Min(Len(p), PlanLimit) THEN [plan |-> p, chunks |-> acc, errors |-> errs]
    ELSE IF res[i].raised
         THEN RunTasks(i + 1, res, [p EXCEPT ![i].status = "failed"], acc, seen,
                       Append(errs, Err("Retrieval failed for task", "timeout")))
    ELSE LET r == ProcessMatches(res[i].matches, acc, seen) IN
         IF r.raised
         THEN RunTasks(i + 1, res, [p EXCEPT ![i].status = "failed"], r.chunks,
                       r.seen, Append(errs, Err("Retrieval failed for task", "timeout")))
         ELSE RunTasks(i + 1, res, [p EXCEPT ![i].status = "completed"], r.chunks,
                       r.seen, errs)

RECURSIVE SortByScore(_)
\* list.sort(key=score, reverse=True): stable, highest score first
SortByScore(s) ==
    IF s = <<>> THEN <<>>
    ELSE LET i == CHOOSE k \in 1..Len(s) :
                     /\ \A j \in 1..Len(s) : s[j].score <= s[k].score
                     /\ \A j \in 1..(k - 1) : s[j].score < s[k].score
         IN  <<s[i]>> \o SortByScore(SubSeq(s, 1, i - 1) \o SubSeq(s, i + 1, Len(s)))

\* the node, given the answers hybrid_search may give to one task
hybrid_rag(results) ==
    /\ Step("hybrid_rag", "posture_enforcer")
    /\ \E res \in [1..Len(plan) -> results] :
          LET r == RunTasks(1, res, plan, <<>>, {}, errors) IN
          /\ plan' = r.plan
          /\ chunks' = SortByScore(r.chunks)
          /\ errors' = r.errors
    /\ UNCHANGED <<query_context, plan_validated, trust_check_passed, trust_flags,
                   detected_obligations, detections, obligations, canonical_obligations,
                   review_packages, final_output, should_continue, gate>>
    /\ UNCHANGED <<extractVars, normVars>>

hybrid_rag_agent == hybrid_rag(SearchResults)

(***************************************************************************)
(* Phase 3: trust gates                                                    *)
(***************************************************************************)
\* a gate that treats ESCALATE like BLOCK
BlocksOrEscalates(a) == a \in {"BLOCK", "ESCALATE"}

\* if <check>.action == "BLOCK"
Blocks(a) == a = "BLOCK"

\* a gate that writes should_continue on every answer
HaltOrResume(a, current) == ~Blocks(a)

\* state["should_continue"] = False, written on BLOCK only
Halt(a, current) == IF Blocks(a) THEN FALSE ELSE current

\* a posture gate whose except branch halts the run
regulatory_posture_enforcer_fail_closed ==
    /\ Step("posture_enforcer", "privacy_scanner")
    /\ \/ \E a \in GateActions, compliant \in BOOLEAN :
          /\ gate' = [gate EXCEPT !.posture = a]
          /\ should_continue' = Halt(a, should_continue)
          /\ errors' = IF Blocks(a)
                       THEN Append(errors, Err("BLOCKED", "Posture violations detected"))
                       ELSE errors
          /\ trust_flags' = IF a = "ESCALATE"
                            THEN Append(trust_flags, "POSTURE_ESCALATION")
                            ELSE trust_flags
          /\ trust_check_passed' = compliant
       \/ \E x \in ExcTexts :
          /\ gate' = [gate EXCEPT !.posture = "RAISED"]
          /\ errors' = Append(errors, Err("Posture check failed", x))
          /\ trust_check_passed' = FALSE
          /\ should_continue' = FALSE
          /\ UNCHANGED trust_flags
    /\ UNCHANGED <<planVars, detected_obligations, detections, obligations,
                   canonical_obligations, review_packages, final_output>>
    /\ UNCHANGED <<extractVars, normVars>>

regulatory_posture_enforcer ==
    /\ Step("posture_enforcer", "privacy_scanner")
    /\ \/ \E a \in GateActions, compliant \in BOOLEAN :
          /\ gate' = [gate EXCEPT !.posture = a]
          /\ should_continue' = Halt(a, should_continue)
          /\ errors' = IF Blocks(a)
                       THEN Append(errors, Err("BLOCKED", "Posture violations detected"))
                       ELSE errors
          /\ trust_flags' = IF a = "ESCALATE"
                            THEN Append(trust_flags, "POSTURE_ESCALATION")
                            ELSE trust_flags
          /\ trust_check_passed' = compliant
       \/ \E x \in ExcTexts :
          /\ gate' = [gate EXCEPT !.posture = "RAISED"]
          /\ errors' = Append(errors, Err("Posture check failed", x))
          /\ trust_check_passed' = TRUE
          /\ UNCHANGED <<should_continue, trust_flags>>
    /\ UNCHANGED <<planVars, detected_obligations, detections, obligations,
                   canonical_obligations, review_packages, final_output>>
    /\ UNCHANGED <<extractVars, normVars>>

privacy_security_scanner ==
    /\ Step("privacy_scanner", "grounding_validator_placeholder")
    /\ \/ \E a \in GateActions :
          /\ gate' = [gate EXCEPT !.privacy = a]
          /\ should_continue' = Halt(a, should_continue)
          /\ errors' = IF Blocks(a)
                       THEN Append(errors, Err("BLOCKED", "Sensitive information detected"))
                       ELSE errors
          /\ trust_flags' = IF a = "ESCALATE"
                            THEN Append(trust_flags, "PRIVACY_ESCALATION")
                            ELSE trust_flags
       \/ \E x \in ExcTexts :
          /\ gate' = [gate EXCEPT !.privacy = "RAISED"]
          /\ errors' = Append(errors, Err("Privacy scan failed", x))
          /\ UNCHANGED <<should_continue, trust_flags>>
    /\ UNCHANGED <<planVars, trust_check_passed, detected_obligations, detections, obligations,
                   canonical_obligations, review_packages, final_output>>
    /\ UNCHANGED <<extractVars, normVars>>

\* check_should_continue without the early exit
check_always_continue == "obligation_detection"

\* graph.py check_should_continue
check_should_continue == IF ~should_continue THEN "END" ELSE "obligation_detection"

grounding_validator_agent ==
    /\ Step("grounding_validator_placeholder", check_should_continue)
    /\ UNCHANGED <<planVars, trust_check_passed, trust_flags, detected_obligations, detections,
                   obligations, canonical_obligations, review_packages,
                   final_output, errors, should_continue, gate>>
    /\ UNCHANGED <<extractVars, normVars>>

(***************************************************************************)
(* Phase 4: obligation detection and atomic extraction                     *)
(***************************************************************************)
TempId == <<"TEMP", 0>>

\* f"OBL-{i:04d}"
OblId(i) == <<"OBL", i>>

\* a canonical id that ignores the cluster index
CanonicalIdFixed(k) == <<"CANONICAL", 1>>

\* f"CANONICAL-{cluster_idx:04d}"
CanonicalId(k) == <<"CANONICAL", k>>

\* what obligation_detection_chain may do for one chunk: raise, or answer with
\* up to MaxPerChunk obligations
DetectionAnswers ==
    {[raised |-> TRUE, obligations |-> 0]} \cup
    { [raised |-> FALSE, obligations |-> k] : k \in 0..MaxPerChunk }

\* every chunk's results tagged with the id of the first chunk
process_chunk_tags_first(chunk, detection) ==
    IF detection.raised THEN <<>>
    ELSE [d \in 1..detection.obligations |-> [chunk_id |-> 1, detected |-> d]]

\* process_chunk: the detected statements of one chunk, tagged with its id;
\* [] when the call raises
process_chunk(chunk, detection) ==
    IF detection.raised THEN <<>>
    ELSE [d \in 1..detection.obligations |-> [chunk_id |-> chunk.id, detected |-> d]]

\* the orders in which as_completed may hand over the futures 1..n: every
\* order for up to MaxShuffled futures, submission order for longer batches
Orders(n) ==
    IF n <= MaxShuffled
    THEN { o \in [1..n -> 1..n] : \A i, j \in 1..n : i # j => o[i] # o[j] }
    ELSE { [i \in 1..n |-> i] }

\* the answers of the n calls of one batch: any for up to MaxShuffled chunks,
\* every call answering MaxPerChunk obligations for longer batches
BatchAnswers(n) ==
    IF n <= MaxShuffled
    THEN [1..n -> DetectionAnswers]
    ELSE { [i \in 1..n |-> [raised |-> FALSE, obligations |-> MaxPerChunk]] }

obligation_detection_agent ==
    /\ Step("obligation_detection", "atomic_extraction_scoring")
    /\ LET chunks_to_process == Prefix(chunks, DetectionLimit)
           n == Len(chunks_to_process)
       IN  \E found \in BatchAnswers(n), order \in Orders(n) :
              /\ detections' = found
              /\ detected_obligations' =
                    Concat([k \in 1..n |->
                              process_chunk(chunks_to_process[order[k]], found[order[k]])])
    /\ UNCHANGED <<planVars, trust_check_passed, trust_flags, obligations,
                   canonical_obligations, review_packages, final_output,
                   errors, should_continue, gate>>
    /\ UNCHANGED <<extractVars, normVars>>

\* EnterpriseObligation(...) of process_obligation, id still the placeholder
NewObligation(p) ==
    [obligation_id |-> TempId,
     source_grounding |-> p.source_grounding,
     structure |-> [subject |-> p.subject, trigger |-> p.trigger,
                    standard |-> p.standard],
     confidence_level |-> p.confidence_level,
     confidence_score |-> p.confidence_score,
     applicability_rules |-> "TBD",
     trust_validation |-> [grounding_validated |-> FALSE],
     human_reviewed |-> FALSE,
     source_obligation_ids |-> <<>>,
     strictest_standard |-> 0]

\* what one worker may return: [] when the chunk is unknown or a call raises,
\* else one obligation per atomic statement of the extraction answer
process_obligation(det_obl, failed, atomic_output) ==
    IF det_obl.chunk_id \notin { chunks[i].id : i \in 1..Len(chunks) } THEN <<>>
    ELSE IF failed THEN <<>>
    ELSE IF \E k \in 1..Len(atomic_output) : ~Validates(atomic_output[k]) THEN <<>>
    ELSE [k \in 1..Len(atomic_output) |-> NewObligation(atomic_output[k])]

\* executor.submit for detected_obligations[:100]
SubmitExtraction ==
    /\ pc = "atomic_extraction_scoring"
    /\ UNCHANGED <<response, analysis_raised, reactVars>>
    /\ pc' = "atomic_extraction_scoring.as_completed"
    /\ executed' = Append(executed, "atomic_extraction_scoring")
    /\ futures' = 1..Len(Prefix(detected_obligations, ExtractionLimit))
    /\ resolved' = <<>>
    /\ final_obligations' = <<>>
    /\ UNCHANGED <<planVars, trust_check_passed, trust_flags, detected_obligations, detections,
                   obligations, canonical_obligations, review_packages,
                   final_output, errors, should_continue, gate, normVars>>

\* the items of the batch that may complete next: any for up to MaxShuffled
\* items, the first one outstanding for longer batches
NextOf(batch, outstanding) ==
    IF batch <= MaxShuffled THEN outstanding
    ELSE { i \in outstanding : \A j \in outstanding : i <= j }

\* the answers one worker's calls may give: any for up to MaxShuffled items,
\* success with one atomic obligation for longer batches
WorkerAnswers(batch) ==
    IF batch <= MaxShuffled
    THEN BOOLEAN \X SeqsUpTo(RawProfiles, MaxAtomic)
    ELSE { <<FALSE, <<Profile(1, "ACL holders", "retail clients", 5, "HIGH", 95)>> >> }

\* a worker of the pool finishes its item
WorkerReturns ==
    /\ pc = "atomic_extraction_scoring.as_completed"
    /\ UNCHANGED <<response, analysis_raised, reactVars>>
    /\ LET batch == Len(Prefix(detected_obligations, ExtractionLimit)) IN
       \E i \in NextOf(batch, futures \ DOMAIN resolved) :
       \E answer \in WorkerAnswers(batch) :
          resolved' = resolved @@
              (i :> process_obligation(detected_obligations[i], answer[1], answer[2]))
    /\ UNCHANGED <<pc, executed, futures, final_obligations>>
    /\ UNCHANGED <<planVars, trust_check_passed, trust_flags, detected_obligations, detections,
                   obligations, canonical_obligations, review_packages,
                   final_output, errors, should_continue, gate, normVars>>

\* an assignment in place of extend: earlier insertions are lost
ExtendReplacing(list, res) == res

\* final_obligations.extend(res)
Extend(list, res) == list \o res

\* as_completed yields a finished future and the node extends its list
GatherResult ==
    /\ pc = "atomic_extraction_scoring.as_completed"
    /\ UNCHANGED <<response, analysis_raised, reactVars>>
    /\ \E i \in NextOf(Len(Prefix(detected_obligations, ExtractionLimit)),
                        futures \cap DOMAIN resolved) :
          /\ final_obligations' = Extend(final_obligations, resolved[i])
          /\ futures' = futures \ {i}
    /\ UNCHANGED <<pc, executed, resolved>>
    /\ UNCHANGED <<planVars, trust_check_passed, trust_flags, detected_obligations, detections,
                   obligations, canonical_obligations, review_packages,
                   final_output, errors, should_continue, gate, normVars>>

\* the node returning while futures are still outstanding
GatheredOrNot == TRUE

\* the as_completed loop has ended
AllGathered == futures = {}

\* enumerate(final_obligations) without the start value 1
AssignIdsFromZero(obls) ==
    [i \in 1..Len(obls) |-> [obls[i] EXCEPT !.obligation_id = <<"OBL", i - 1>>]]

\* for i, obl in enumerate(final_obligations, 1): obl.obligation_id = f"OBL-{i:04d}"
AssignIds(obls) == [i \in 1..Len(obls) |-> [obls[i] EXCEPT !.obligation_id = OblId(i)]]

FinishExtraction ==
    /\ pc = "atomic_extraction_scoring.as_completed"
    /\ UNCHANGED <<response, analysis_raised, reactVars>>
    /\ AllGathered
    /\ pc' = "normalization"
    /\ final_obligations' = AssignIds(final_obligations)
    /\ obligations' = final_obligations'
    /\ UNCHANGED <<executed, futures, resolved>>
    /\ UNCHANGED <<planVars, trust_check_passed, trust_flags, detected_obligations, detections,
                   canonical_obligations, review_packages, final_output,
                   errors, should_continue, gate, normVars>>

(***************************************************************************)
(* Phase 5: similarity clustering and canonical synthesis                  *)
(***************************************************************************)
RECURSIVE ClusterLoopForgetsAbsorbed(_, _, _, _, _)
\* the loop without assigned.add(j)
ClusterLoopForgetsAbsorbed(i, n, sim, assigned, acc) ==
    IF i >= n THEN acc
    ELSE IF i \in assigned THEN ClusterLoopForgetsAbsorbed(i + 1, n, sim, assigned, acc)
    ELSE LET absorbed == { j \in (i + 1)..(n - 1) :
                             j \notin assigned /\ sim[<<i, j>>] >= ClusterThreshold }
             cluster == <<i>> \o SortedSeq(absorbed)
         IN  ClusterLoopForgetsAbsorbed(i + 1, n, sim, assigned \cup {i},
                                        Append(acc, cluster))

RECURSIVE ClusterLoopAnyEarlier(_, _, _, _, _)
\* the loop comparing j with every index from the seed up to j - 1
ClusterLoopAnyEarlier(i, n, sim, assigned, acc) ==
    IF i >= n THEN acc
    ELSE IF i \in assigned THEN ClusterLoopAnyEarlier(i + 1, n, sim, assigned, acc)
    ELSE LET absorbed == { j \in (i + 1)..(n - 1) :
                             /\ j \notin assigned
                             /\ \E m \in i..(j - 1) : sim[<<m, j>>] >= ClusterThreshold }
             cluster == <<i>> \o SortedSeq(absorbed)
         IN  ClusterLoopAnyEarlier(i + 1, n, sim, assigned \cup {i} \cup absorbed,
                                   Append(acc, cluster))

RECURSIVE ClusterLoopStrictlyAbove(_, _, _, _, _)
\* the loop with similarity > threshold in place of >=
ClusterLoopStrictlyAbove(i, n, sim, assigned, acc) ==
    IF i >= n THEN acc
    ELSE IF i \in assigned THEN ClusterLoopStrictlyAbove(i + 1, n, sim, assigned, acc)
    ELSE LET absorbed == { j \in (i + 1)..(n - 1) :
                             j \notin assigned /\ sim[<<i, j>>] > ClusterThreshold }
             cluster == <<i>> \o SortedSeq(absorbed)
         IN  ClusterLoopStrictlyAbove(i + 1, n, sim, assigned \cup {i} \cup absorbed,
                                      Append(acc, cluster))

RECURSIVE ClusterLoop(_, _, _, _, _)
\* the outer loop of cluster_similar_obligations over i = 0 .. n-1
ClusterLoop(i, n, sim, assigned, acc) ==
    IF i >= n THEN acc
    ELSE IF i \in assigned THEN ClusterLoop(i + 1, n, sim, assigned, acc)
    ELSE LET absorbed == { j \in (i + 1)..(n - 1) :
                             j \notin assigned /\ sim[<<i, j>>] >= ClusterThreshold }
             cluster == <<i>> \o SortedSeq(absorbed)
         IN  ClusterLoop(i + 1, n, sim, assigned \cup {i} \cup absorbed,
                         Append(acc, cluster))

\* clusters.insert(0, cluster) in place of clusters.append(cluster)
cluster_newest_first(n, sim) ==
    IF n < 2 THEN (IF n = 1 THEN << <<0>> >> ELSE <<>>)
    ELSE LET cl == ClusterLoop(0, n, sim, {}, <<>>) IN
         [k \in 1..Len(cl) |-> cl[Len(cl) + 1 - k]]

\* clusters of 0-based indices, given the cosine similarity matrix
cluster_similar_obligations(n, sim) ==
    IF n < 2 THEN (IF n = 1 THEN << <<0>> >> ELSE <<>>)
    ELSE ClusterLoop(0, n, sim, {}, <<>>)

\* the matrices cosine_similarity may return for n statements: symmetric,
\* 100 on the diagonal
SimilarityMatrices(n) ==
    LET upper == { p \in (0..(n - 1)) \X (0..(n - 1)) : p[1] < p[2] } IN
    { [p \in (0..(n - 1)) \X (0..(n - 1)) |->
          IF p[1] = p[2] THEN 100
          ELSE IF p[1] < p[2] THEN u[p] ELSE u[<<p[2], p[1]>>]] :
        u \in [upper -> SimValues] }

\* the answers of canonical_synthesis_chain for one cluster
CitationLists ==
    {<<>>} \cup { <<c>> : c \in Citations }
           \cup { p \in Citations \X Citations : p[1] # p[2] }

SynthesisRaised ==
    [raised |-> TRUE, should_merge |-> FALSE, strictest_standard |-> 0,
     all_source_citations |-> <<>>, confidence_level |-> "LOW"]

SynthesisRefused ==
    [raised |-> FALSE, should_merge |-> FALSE, strictest_standard |-> 0,
     all_source_citations |-> <<>>, confidence_level |-> "LOW"]

SynthesisAnswers ==
    {SynthesisRaised, SynthesisRefused} \cup
    [raised : {FALSE}, should_merge : {TRUE},
     strictest_standard : {0} \cup Standards,
     all_source_citations : CitationLists,
     confidence_level : ConfidenceLevel]

\* the score of the template (first) obligation instead of the maximum
FirstScore(cluster_obls) == cluster_obls[1].confidence_score

\* max(o.confidence_score for o in cluster_obls)
MaxScore(cluster_obls) ==
    CHOOSE m \in { cluster_obls[i].confidence_score : i \in 1..Len(cluster_obls) } :
        \A i \in 1..Len(cluster_obls) : cluster_obls[i].confidence_score <= m

\* a canonical obligation recording the template's id only
CanonicalOfTemplate(cluster_idx, cluster_obls, synthesis) ==
    LET template == cluster_obls[1] IN
    [obligation_id |-> CanonicalId(cluster_idx),
     source_grounding |-> synthesis.all_source_citations[1],
     structure |-> template.structure,
     confidence_level |-> synthesis.confidence_level,
     confidence_score |-> MaxScore(cluster_obls),
     applicability_rules |-> template.applicability_rules,
     trust_validation |-> template.trust_validation,
     human_reviewed |-> FALSE,
     source_obligation_ids |-> <<template.obligation_id>>,
     strictest_standard |-> synthesis.strictest_standard]

\* the EnterpriseObligation built when synthesis.should_merge
Canonical(cluster_idx, cluster_obls, synthesis) ==
    LET template == cluster_obls[1] IN
    [obligation_id |-> CanonicalId(cluster_idx),
     source_grounding |-> synthesis.all_source_citations[1],
     structure |-> template.structure,
     confidence_level |-> synthesis.confidence_level,
     confidence_score |-> MaxScore(cluster_obls),
     applicability_rules |-> template.applicability_rules,
     trust_validation |-> template.trust_validation,
     human_reviewed |-> FALSE,
     source_obligation_ids |->
         [i \in 1..Len(cluster_obls) |-> cluster_obls[i].obligation_id],
     strictest_standard |-> synthesis.strictest_standard]

\* whether process_cluster replaces the cluster by one canonical obligation;
\* all_source_citations[0] of an empty list raises and is caught
Merges(synthesis) ==
    /\ ~synthesis.raised
    /\ synthesis.should_merge
    /\ synthesis.all_source_citations # <<>>

\* the except branch without results.extend(cluster_obls)
process_cluster_drops_failed(obls, cluster_idx, cluster, synthesis) ==
    IF Len(cluster) = 1 THEN <<obls[cluster[1] + 1]>>
    ELSE LET cluster_obls == [i \in 1..Len(cluster) |-> obls[cluster[i] + 1]] IN
         IF synthesis.raised THEN <<>>
         ELSE IF Merges(synthesis)
         THEN <<Canonical(cluster_idx, cluster_obls, synthesis)>>
         ELSE cluster_obls

\* a merge that leaves the members in the list next to their canonical
process_cluster_keeps_members(obls, cluster_idx, cluster, synthesis) ==
    IF Len(cluster) = 1 THEN <<obls[cluster[1] + 1]>>
    ELSE LET cluster_obls == [i \in 1..Len(cluster) |-> obls[cluster[i] + 1]] IN
         IF Merges(synthesis)
         THEN <<Canonical(cluster_idx, cluster_obls, synthesis)>> \o cluster_obls
         ELSE cluster_obls

\* results.append(cluster_obls[0]) where the synthesizer refused to merge
process_cluster_keeps_template(obls, cluster_idx, cluster, synthesis) ==
    IF Len(cluster) = 1 THEN <<obls[cluster[1] + 1]>>
    ELSE LET cluster_obls == [i \in 1..Len(cluster) |-> obls[cluster[i] + 1]] IN
         IF Merges(synthesis)
         THEN <<Canonical(cluster_idx, cluster_obls, synthesis)>>
         ELSE IF synthesis.raised \/ synthesis.should_merge THEN cluster_obls
         ELSE <<cluster_obls[1]>>

process_cluster(obls, cluster_idx, cluster, synthesis) ==
    IF Len(cluster) = 1 THEN <<obls[cluster[1] + 1]>>
    ELSE LET cluster_obls == [i \in 1..Len(cluster) |-> obls[cluster[i] + 1]] IN
         IF Merges(synthesis)
         THEN <<Canonical(cluster_idx, cluster_obls, synthesis)>>
         ELSE cluster_obls

normalization_agents ==
    /\ pc = "normalization"
    /\ UNCHANGED <<response, analysis_raised, reactVars>>
    /\ executed' = Append(executed, "normalization")
    /\ IF Len(obligations) < 2
       THEN /\ canonical_obligations' = obligations
            /\ pc' = "applicability_analysis"
            /\ UNCHANGED normVars
       ELSE \/ \* get_embedding raises: the node raises and invoke() with it
               /\ pc' = "RAISED"
               /\ UNCHANGED <<canonical_obligations, normVars>>
            \/ \E sim \in SimilarityMatrices(Len(obligations)) :
               LET cl == cluster_similar_obligations(Len(obligations), sim)
                   multi == { k \in 1..Len(cl) : Len(cl[k]) > 1 }
               IN  \E synthesis \in [multi -> SynthesisAnswers] :
                      /\ similarity_matrix' = sim
                      /\ clusters' = cl
                      /\ synthesis_failed' = { k \in multi : synthesis[k].raised }
                      /\ synthesis_calls' =
                            { [cluster |-> k, raised |-> synthesis[k].raised,
                               should_merge |-> synthesis[k].should_merge] : k \in multi }
                      /\ canonical_obligations' =
                            Concat([k \in 1..Len(cl) |->
                                process_cluster(obligations, k, cl[k],
                                    IF k \in multi THEN synthesis[k]
                                                   ELSE SynthesisRefused)])
                      /\ pc' = "applicability_analysis"
    /\ UNCHANGED <<planVars, trust_check_passed, trust_flags, detected_obligations, detections,
                   obligations, review_packages, final_output, errors,
                   should_continue, gate, extractVars>>

(***************************************************************************)
(* Phase 6: applicability analysis                                         *)
(***************************************************************************)
\* process_obl: the analysis fields are set when the call succeeds
\* an except branch that resets the analysis fields
process_obl_clears_on_error(obl, ok) ==
    IF ok THEN [obl EXCEPT !.applicability_rules = "ANALYSED"]
    ELSE [obl EXCEPT !.applicability_rules = "NONE"]

process_obl(obl, ok) ==
    IF ok THEN [obl EXCEPT !.applicability_rules = "ANALYSED"] ELSE obl

\* which applicability calls of a batch succeed: any for up to MaxShuffled
\* items; all, none or every second one for longer batches
AnalysisOutcomes(n) ==
    IF n <= MaxShuffled THEN [1..n -> BOOLEAN]
    ELSE { [i \in 1..n |-> TRUE], [i \in 1..n |-> FALSE], [i \in 1..n |-> i % 2 = 0] }

applicability_analyzer ==
    /\ pc = "applicability_analysis"
    /\ pc' = "safety_validation"
    /\ executed' = Append(executed, "applicability_analysis")
    /\ UNCHANGED <<response, reactVars>>
    /\ LET items == Prefix(canonical_obligations, ApplicabilityLimit) IN
       \E ok \in AnalysisOutcomes(Len(items)) :
          LET updated_obligations ==
                  [i \in 1..Len(items) |-> process_obl(items[i], ok[i])]
                  \o Suffix(canonical_obligations, ApplicabilityLimit)
          IN  /\ canonical_obligations' = updated_obligations
              /\ analysis_raised' = { i \in 1..Len(items) : ~ok[i] }
              \* the obligations passed through normalization are the same
              \* objects as in state["obligations"]
              /\ obligations' =
                    [i \in 1..Len(obligations) |->
                        IF \E j \in 1..Len(items) :
                              /\ items[j].obligation_id = obligations[i].obligation_id
                              /\ ok[j]
                        THEN process_obl(obligations[i], TRUE)
                        ELSE obligations[i]]
    /\ UNCHANGED <<planVars, trust_check_passed, trust_flags, detected_obligations, detections,
                   review_packages, final_output, errors, should_continue, gate>>
    /\ UNCHANGED <<extractVars, normVars>>

(***************************************************************************)
(* Phase 7: final safety validation                                        *)
(***************************************************************************)
\* needs_review without the grounding_validated disjunct
needs_review_by_confidence(obl) ==
    \/ obl.confidence_score < ReviewThreshold
    \/ obl.confidence_level \in {"MEDIUM", "LOW"}

needs_review(obl) ==
    \/ obl.confidence_score < ReviewThreshold
    \/ obl.confidence_level \in {"MEDIUM", "LOW"}
    \/ ~obl.trust_validation.grounding_validated

package(obl) ==
    [obligation_id |-> obl.obligation_id,
     reason |-> IF obl.confidence_score < ReviewThreshold
                THEN << <<"Low confidence", obl.confidence_score>> >>
                ELSE <<>>,
     suggested_action |-> "REVIEW"]

RECURSIVE PackageReviews(_)
\* the loop that builds review_packages
PackageReviews(obls) ==
    IF obls = <<>> THEN <<>>
    ELSE (IF needs_review(Head(obls)) THEN <<package(Head(obls))>> ELSE <<>>)
         \o PackageReviews(Tail(obls))

\* a validator that delivers the register although it answered BLOCK
DeliveredDespiteBlock(action, canonical) == canonical

\* a validator that withholds the obligations with a low score
DeliveredWithoutLowScores(action, canonical) ==
    IF action = "BLOCK" THEN <<>>
    ELSE SelectSeq(canonical, LAMBDA o : o.confidence_score >= ReviewThreshold)

\* state["final_output"] after the safety check answered with action
Delivered(action, canonical) == IF action = "BLOCK" THEN <<>> ELSE canonical

safety_validator_and_packager ==
    /\ Step("safety_validation", "END")
    /\ \/ \E a \in SafetyActions :
          /\ gate' = [gate EXCEPT !.safety = a]
          /\ review_packages' = PackageReviews(canonical_obligations)
          /\ should_continue' = IF a = "BLOCK" THEN FALSE ELSE should_continue
          /\ errors' = IF a = "BLOCK"
                       THEN Append(errors, Err("BLOCKED", "Final safety checks failed"))
                       ELSE errors
          /\ final_output' = Delivered(a, canonical_obligations)
       \/ \E x \in ExcTexts :
          /\ gate' = [gate EXCEPT !.safety = "RAISED"]
          /\ errors' = Append(errors, Err("Final safety check failed", x))
          /\ final_output' = canonical_obligations
          /\ UNCHANGED <<review_packages, should_continue>>
    /\ UNCHANGED <<planVars, trust_check_passed, trust_flags, detected_obligations, detections,
                   obligations, canonical_obligations>>
    /\ UNCHANGED <<extractVars, normVars>>

(***************************************************************************)
(* Specifications                                                          *)
(***************************************************************************)
\* one run of the workflow from the orchestrator's initial state
\* the client-facing form of one obligation of the register
transform_obligation(obl) ==
    [obligation_id |-> obl.obligation_id,
     source |-> obl.source_grounding,
     confidence |-> [level |-> obl.confidence_level, score |-> obl.confidence_score],
     applicability |-> [rules |-> obl.applicability_rules]]

\* what the try block returns after workflow.invoke
Summary ==
    [final_obligations |->
         [i \in 1..Len(final_output) |-> transform_obligation(final_output[i])],
     review_packages |-> review_packages,
     metadata |->
         [total_obligations |-> Len(final_output),
          high_confidence_count |->
              Cardinality({ i \in 1..Len(final_output) :
                              final_output[i].confidence_level = "HIGH" })],
     errors |-> errors]

\* what the except block returns when workflow.invoke raised
Failure == [error |-> "exception", status |-> "failed"]

\* run_enterprise_compliance_system returns to its caller
run_enterprise_compliance_system ==
    /\ pc \in {"END", "RAISED"}
    /\ pc' = "RETURNED"
    /\ response' = IF pc = "END" THEN Summary ELSE Failure
    /\ UNCHANGED <<analysis_raised, reactVars>>
    /\ UNCHANGED <<planVars, trust_check_passed, trust_flags, detected_obligations,
                   detections, obligations, canonical_obligations, review_packages,
                   final_output, errors, should_continue, gate, executed,
                   extractVars, normVars>>

Next ==
    \/ query_understanding_agent
    \/ planning_agent
    \/ regulatory_scope_validator
    \/ query_expansion_agent
    \/ hybrid_rag_agent
    \/ regulatory_posture_enforcer
    \/ privacy_security_scanner
    \/ grounding_validator_agent
    \/ obligation_detection_agent
    \/ SubmitExtraction
    \/ WorkerReturns
    \/ GatherResult
    \/ FinishExtraction
    \/ normalization_agents
    \/ applicability_analyzer
    \/ safety_validator_and_packager
    \/ run_enterprise_compliance_system

Spec == Init /\ [][Next]_vars

\* The state in which a run without failures so far enters a node after
\* the trust gates: one retrieved chunk in which n statements were detected.
AfterGates(n) ==
    /\ query_context = "parsed"
    /\ plan = <<[id |-> 1, search_terms |-> "expanded", status |-> "completed"]>>
    /\ plan_validated = TRUE
    /\ chunks = <<[id |-> 1, score |-> 90]>>
    /\ trust_check_passed = TRUE
    /\ trust_flags = <<>>
    /\ detections = <<[raised |-> FALSE, obligations |-> n]>>
    /\ detected_obligations = process_chunk(chunks[1], detections[1])
    /\ canonical_obligations = <<>>
    /\ review_packages = <<>>
    /\ final_output = <<>>
    /\ errors = <<>>
    /\ should_continue = TRUE
    /\ similarity_matrix = <<>>
    /\ clusters = <<>>
    /\ synthesis_failed = {}
    /\ synthesis_calls = {}
    /\ response = <<>>
    /\ analysis_raised = {}
    /\ agent_state = NewAgentState
    /\ agent_result = <<>>
    /\ gate = [posture |-> "CONTINUE", privacy |-> "CONTINUE", safety |-> "NONE"]

NodesBeforeExtraction ==
    <<"query_understanding", "planning", "scope_validation", "query_expansion",
      "hybrid_rag", "posture_enforcer", "privacy_scanner",
      "grounding_validator_placeholder", "obligation_detection">>

\* the atomic extraction stage alone, entered with up to MaxDetected
\* detected statements
InitExtract ==
    /\ \E n \in 0..MaxDetected : AfterGates(n)
    /\ pc = "atomic_extraction_scoring"
    /\ obligations = <<>>
    /\ futures = {}
    /\ resolved = <<>>
    /\ final_obligations = <<>>
    /\ executed = NodesBeforeExtraction

NextExtract ==
    \/ SubmitExtraction
    \/ WorkerReturns
    \/ GatherResult
    \/ FinishExtraction

SpecExtract == InitExtract /\ [][NextExtract]_vars

\* the extraction stage under the scheduling the code guarantees: the
\* dispatching thread submits, gathers every completed future and returns
\* when none is left. process_obligation's calls are made without a timeout
\* and future.result() waits without one, so nothing obliges a worker to
\* return: WorkerReturns carries no fairness condition.
SpecExtractLive ==
    /\ InitExtract
    /\ [][NextExtract]_vars
    /\ WF_vars(SubmitExtraction)
    /\ WF_vars(GatherResult)
    /\ WF_vars(FinishExtraction)

\* normalization, applicability analysis and final validation, entered with
\* up to MaxObligations extracted obligations (one per detected statement)
InitNorm ==
    /\ \E ps \in SeqsUpTo(Profiles, MaxObligations) :
          /\ AfterGates(Len(ps))
          /\ resolved = [i \in 1..Len(ps) |-> <<NewObligation(ps[i])>>]
          /\ final_obligations = AssignIds([i \in 1..Len(ps) |-> NewObligation(ps[i])])
    /\ obligations = final_obligations
    /\ futures = {}
    /\ pc = "normalization"
    /\ executed = Append(NodesBeforeExtraction, "atomic_extraction_scoring")

NextNorm ==
    \/ normalization_agents
    \/ applicability_analyzer
    \/ safety_validator_and_packager

SpecNorm == InitNorm /\ [][NextNorm]_vars

\* cluster_similar_obligations called on its own with up to MaxClusterInput
\* obligations and any similarity matrix of their statements
InitCluster ==
    /\ \E n \in 0..MaxClusterInput :
          /\ obligations = AssignIds([i \in 1..n |->
                 NewObligation(Profile(1, "ACL holders", "retail clients", 5, "HIGH", 95))])
          /\ similarity_matrix \in SimilarityMatrices(n)
    /\ pc = "cluster_similar_obligations"
    /\ clusters = <<>>
    /\ synthesis_failed = {}
    /\ synthesis_calls = {}
    /\ response = <<>>
    /\ analysis_raised = {}
    /\ agent_state = NewAgentState
    /\ agent_result = <<>>
    /\ query_context = "parsed"
    /\ plan = <<>>
    /\ plan_validated = TRUE
    /\ chunks = <<>>
    /\ trust_check_passed = TRUE
    /\ trust_flags = <<>>
    /\ detected_obligations = <<>>
    /\ detections = <<>>
    /\ canonical_obligations = <<>>
    /\ review_packages = <<>>
    /\ final_output = <<>>
    /\ errors = <<>>
    /\ should_continue = TRUE
    /\ futures = {}
    /\ resolved = <<>>
    /\ final_obligations = obligations
    /\ executed = <<>>
    /\ gate = NoGate

\* one call of the clusterer
ClusterCall ==
    /\ pc = "cluster_similar_obligations"
    /\ UNCHANGED <<response, analysis_raised, reactVars>>
    /\ pc' = "clustered"
    /\ clusters' = cluster_similar_obligations(Len(obligations), similarity_matrix)
    /\ UNCHANGED <<planVars, trust_check_passed, trust_flags, detected_obligations, detections,
                   obligations, similarity_matrix, synthesis_failed, synthesis_calls,
                   canonical_obligations, review_packages, final_output, errors,
                   should_continue, gate, extractVars, executed>>

\* a second call on the same list and matrix
ClusterAgain ==
    /\ pc = "clustered"
    /\ UNCHANGED <<response, analysis_raised, reactVars>>
    /\ pc' = "reclustered"
    /\ clusters' = cluster_similar_obligations(Len(obligations), similarity_matrix)
    /\ UNCHANGED <<planVars, trust_check_passed, trust_flags, detected_obligations, detections,
                   obligations, similarity_matrix, synthesis_failed, synthesis_calls,
                   canonical_obligations, review_packages, final_output, errors,
                   should_continue, gate, extractVars, executed>>

NextCluster ==
    \/ ClusterCall
    \/ ClusterAgain

SpecCluster == InitCluster /\ [][NextCluster]_vars

\* detection and atomic extraction as batches: up to MaxBatchChunks retrieved
\* chunks or one chunk more than the detection cap, or one detected statement
\* more than the extraction cap
InitBatch ==
    \/ /\ \E n \in (0..MaxBatchChunks) \cup {DetectionLimit + 1} :
             chunks = [i \in 1..n |-> [id |-> i, score |-> 90]]
       /\ query_context = "parsed"
       /\ plan = <<[id |-> 1, search_terms |-> "expanded", status |-> "completed"]>>
       /\ plan_validated = TRUE
       /\ trust_check_passed = TRUE
       /\ trust_flags = <<>>
       /\ detected_obligations = <<>>
       /\ detections = <<>>
       /\ obligations = <<>>
       /\ canonical_obligations = <<>>
       /\ review_packages = <<>>
       /\ final_output = <<>>
       /\ errors = <<>>
       /\ should_continue = TRUE
       /\ similarity_matrix = <<>>
       /\ clusters = <<>>
       /\ synthesis_failed = {}
       /\ synthesis_calls = {}
       /\ response = <<>>
       /\ analysis_raised = {}
       /\ agent_state = NewAgentState
       /\ agent_result = <<>>
       /\ gate = [posture |-> "CONTINUE", privacy |-> "CONTINUE", safety |-> "NONE"]
       /\ futures = {}
       /\ resolved = <<>>
       /\ final_obligations = <<>>
       /\ pc = "obligation_detection"
       /\ executed = SubSeq(NodesBeforeExtraction, 1, 8)
    \/ /\ AfterGates(ExtractionLimit + 1)
       /\ pc = "atomic_extraction_scoring"
       /\ obligations = <<>>
       /\ futures = {}
       /\ resolved = <<>>
       /\ final_obligations = <<>>
       /\ executed = NodesBeforeExtraction

NextBatch ==
    \/ obligation_detection_agent
    \/ SubmitExtraction
    \/ WorkerReturns
    \/ GatherResult
    \/ FinishExtraction

SpecBatch == InitBatch /\ [][NextBatch]_vars

\* applicability analysis and final validation, entered with up to
\* MaxShuffled canonical obligations or one more than the analysis cap
InitApply ==
    /\ \E ps \in SeqsUpTo(MergeProfiles, MaxShuffled)
                  \cup { [i \in 1..(ApplicabilityLimit + 1) |->
                            Profile(1, "ACL holders", "retail clients", 5, "HIGH", 95)] } :
          /\ detections = <<[raised |-> FALSE, obligations |-> Len(ps)]>>
          /\ resolved = [i \in 1..Len(ps) |-> <<NewObligation(ps[i])>>]
          /\ final_obligations = AssignIds([i \in 1..Len(ps) |-> NewObligation(ps[i])])
    /\ query_context = "parsed"
    /\ plan = <<[id |-> 1, search_terms |-> "expanded", status |-> "completed"]>>
    /\ plan_validated = TRUE
    /\ chunks = <<[id |-> 1, score |-> 90]>>
    /\ trust_check_passed = TRUE
    /\ trust_flags = <<>>
    /\ detected_obligations = process_chunk(chunks[1], detections[1])
    /\ obligations = final_obligations
    /\ canonical_obligations = obligations
    /\ review_packages = <<>>
    /\ final_output = <<>>
    /\ errors = <<>>
    /\ should_continue = TRUE
    /\ similarity_matrix = <<>>
    /\ clusters = <<>>
    /\ synthesis_failed = {}
    /\ synthesis_calls = {}
    /\ response = <<>>
    /\ analysis_raised = {}
    /\ agent_state = NewAgentState
    /\ agent_result = <<>>
    /\ gate = [posture |-> "CONTINUE", privacy |-> "CONTINUE", safety |-> "NONE"]
    /\ futures = {}
    /\ pc = "applicability_analysis"
    /\ executed = NodesBeforeExtraction \o <<"atomic_extraction_scoring", "normalization">>

NextApply ==
    \/ applicability_analyzer
    \/ safety_validator_and_packager

SpecApply == InitApply /\ [][NextApply]_vars

(***************************************************************************)
(* The ReAct agent: think -> act -> (think | END)                          *)
(***************************************************************************)
\* config["react_agent"]["max_iterations"]; the configuration file sets it
max_iterations == MaxIterations

\* ActionType
ActionType ==
    {"rag_search", "completeness_check", "web_search", "validate_citations",
     "finalize_answer"}

\* what generate_comprehensive_answer may return: the content of the
\* completion, which may be the empty string, or its own error text
AnswerTexts == {"", "register", "Error generating obligation register"}

pipelineVars ==
    <<planVars, trust_check_passed, trust_flags, detected_obligations, detections,
      obligations, canonical_obligations, review_packages, final_output, errors,
      should_continue, gate, executed, extractVars, normVars, response,
      analysis_raised>>

\* think_step: the iteration is counted, then the thought and the planned
\* action are recorded unless the call, the parsing or ActionType(...) raises
think_step ==
    /\ pc = "think"
    /\ pc' = "act"
    /\ LET it == agent_state.iteration + 1 IN
       \/ \E a \in ActionType :
             agent_state' = [agent_state EXCEPT
                 !.iteration = it,
                 !.thoughts = Append(@, [iteration |-> it]),
                 !.actions = Append(@, [iteration |-> it, action_type |-> a])]
       \/ \* the completion call or json.loads raises
          agent_state' = [agent_state EXCEPT !.iteration = it, !.errors = @ + 1]
       \/ \* next_action is no ActionType: raised after the thought was recorded
          agent_state' = [agent_state EXCEPT
                 !.iteration = it,
                 !.thoughts = Append(@, [iteration |-> it]),
                 !.errors = @ + 1]
    /\ UNCHANGED <<agent_result, pipelineVars>>

\* ReactAgent.should_continue and the conditional edge from act
react_should_continue(state) ==
    IF state.final_answer # "" THEN "react.END"
    ELSE IF state.iteration >= max_iterations THEN "react.END"
    ELSE "think"

\* Observation(iteration=state.iteration, action_type=last_action.action_type);
\* action_iteration remembers the iteration of the action that was executed
Observe(state, last_action) ==
    [iteration |-> state.iteration, action_type |-> last_action.action_type,
     action_iteration |-> last_action.iteration]

\* the states the try block of act_step may leave for last_action
Executed(state, last_action) ==
    LET raised == [state EXCEPT !.errors = @ + 1] IN
    IF last_action.action_type = "rag_search"
    THEN {raised, state, [state EXCEPT !.all_chunks = 1]}
    ELSE IF last_action.action_type = "finalize_answer"
    THEN IF state.all_chunks > 0
         THEN { [state EXCEPT !.final_answer = text] : text \in AnswerTexts }
         ELSE { [state EXCEPT !.final_answer = "Unable to generate obligation register"] }
    ELSE {raised, state}

\* act_step: state.actions[-1] is executed and its observation recorded; with
\* no action planned yet the index raises outside the try block
act_step ==
    /\ pc = "act"
    /\ IF agent_state.actions = <<>>
       THEN /\ pc' = "react.RAISED"
            /\ UNCHANGED agent_state
       ELSE LET last_action == agent_state.actions[Len(agent_state.actions)] IN
            \E after \in Executed(agent_state, last_action) :
               /\ agent_state' = [after EXCEPT
                      !.observations = Append(@, Observe(after, last_action))]
               /\ pc' = react_should_continue(agent_state')
    /\ UNCHANGED <<agent_result, pipelineVars>>

\* ReactAgent.run after agent.invoke: the safety check for a missing final
\* answer and the returned dictionary; the except branch when invoke raised
ReactAgent_run ==
    /\ pc \in {"react.END", "react.RAISED"}
    /\ pc' = "react.RETURNED"
    /\ IF pc = "react.RAISED"
       THEN agent_result' = [answer |-> "", error |-> TRUE,
                             iterations |-> agent_state.iteration]
       ELSE \E text \in AnswerTexts :
               agent_result' =
                   [answer |-> IF agent_state.final_answer # ""
                               THEN agent_state.final_answer
                               ELSE IF agent_state.all_chunks > 0 THEN text
                               ELSE "Process completed, but no compliance data",
                    error |-> FALSE,
                    iterations |-> agent_state.iteration]
    /\ UNCHANGED <<agent_state, pipelineVars>>

\* one run of the agent on a query
InitReact ==
    /\ InitialState
    /\ pc = "think"
    /\ similarity_matrix = <<>>
    /\ clusters = <<>>
    /\ synthesis_failed = {}
    /\ synthesis_calls = {}
    /\ response = <<>>
    /\ analysis_raised = {}
    /\ agent_state = NewAgentState
    /\ agent_result = <<>>
    /\ futures = {}
    /\ resolved = <<>>
    /\ final_obligations = <<>>
    /\ executed = <<>>
    /\ gate = NoGate

NextReact ==
    \/ think_step
    \/ act_step
    \/ ReactAgent_run

SpecReact == InitReact /\ [][NextReact]_vars

\* the matches of searches over an index of MaxRetrieveIds chunks
OverlappingMatches ==
    [id : 1..MaxRetrieveIds, score : MatchScores, parent : BOOLEAN, metadata : BOOLEAN]

\* the answers of one search: it raises, or it returns up to
\* MaxRetrieveMatches matches, the same id possibly more than once
OverlappingResults ==
    {[raised |-> TRUE, matches |-> <<>>]} \cup
    { [raised |-> FALSE, matches |-> ms] :
        ms \in SeqsUpTo(OverlappingMatches, MaxRetrieveMatches) }

\* the retrieval stage alone, entered with a plan of up to MaxRetrievePlan
\* tasks whose searches may overlap
InitRetrieve ==
    /\ \E n \in 1..MaxRetrievePlan :
          plan = [i \in 1..n |-> [PlanItem(i) EXCEPT !.search_terms = "expanded"]]
    /\ pc = "hybrid_rag"
    /\ executed = <<"query_understanding", "planning", "scope_validation",
                    "query_expansion">>
    /\ query_context = "parsed"
    /\ plan_validated = TRUE
    /\ chunks = <<>>
    /\ trust_check_passed = FALSE
    /\ trust_flags = <<>>
    /\ detected_obligations = <<>>
    /\ detections = <<>>
    /\ obligations = <<>>
    /\ canonical_obligations = <<>>
    /\ review_packages = <<>>
    /\ final_output = <<>>
    /\ errors = <<>>
    /\ should_continue = TRUE
    /\ similarity_matrix = <<>>
    /\ clusters = <<>>
    /\ synthesis_failed = {}
    /\ synthesis_calls = {}
    /\ response = <<>>
    /\ analysis_raised = {}
    /\ agent_state = NewAgentState
    /\ agent_result = <<>>
    /\ futures = {}
    /\ resolved = <<>>
    /\ final_obligations = <<>>
    /\ gate = NoGate

\* hybrid_rag_agent over the overlapping searches
hybrid_rag_overlapping == hybrid_rag(OverlappingResults)

NextRetrieve == hybrid_rag_overlapping

SpecRetrieve == InitRetrieve /\ [][NextRetrieve]_vars

\* the normalization stage alone, entered with MaxMergeInput extracted
\* obligations, enough for two clusters of two
InitMerge ==
    /\ \E ps \in [1..MaxMergeInput -> MergeProfiles] :
          /\ AfterGates(Len(ps))
          /\ resolved = [i \in 1..Len(ps) |-> <<NewObligation(ps[i])>>]
          /\ final_obligations = AssignIds([i \in 1..Len(ps) |-> NewObligation(ps[i])])
    /\ obligations = final_obligations
    /\ futures = {}
    /\ pc = "normalization"
    /\ executed = Append(NodesBeforeExtraction, "atomic_extraction_scoring")

NextMerge == normalization_agents

SpecMerge == InitMerge /\ [][NextMerge]_vars

(***************************************************************************)
(* Properties                                                              *)
(***************************************************************************)
IsMerged(obl) == obl.obligation_id[1] = "CANONICAL"

\* the extracted obligations a merged canonical obligation was built from
Members(c) ==
    { o \in Range(obligations) : o.obligation_id \in Range(c.source_obligation_ids) }

MergedCanonicals == { c \in Range(canonical_obligations) : IsMerged(c) }

AnyGateBlocked == "BLOCK" \in {gate.posture, gate.privacy, gate.safety}

ExtractionSideNodes ==
    {"obligation_detection", "atomic_extraction_scoring", "normalization",
     "applicability_analysis", "safety_validation"}

\* C1: once any trust gate (posture enforcer, privacy scanner, final safety
\* validator) has answered BLOCK, the run does not raise, final_output is the
\* empty list and errors holds an entry containing "BLOCKED", up to and
\* including the end of the run.
C1_BlockYieldsEmptyOutput ==
    AnyGateBlocked =>
        /\ pc # "RAISED"
        /\ final_output = <<>>
        /\ \E i \in 1..Len(errors) : ContainsBLOCKED(errors[i])

\* a run ended by a BLOCK of the final validator over a non-empty register
C1_Witness ==
    /\ pc = "END"
    /\ gate.safety = "BLOCK"
    /\ canonical_obligations # <<>>

\* C2: after a BLOCK of the posture enforcer or of the privacy scanner no
\* extraction-side node (detection, atomic extraction, normalization,
\* applicability analysis, final validation) is ever run, and the gate check
\* after the grounding placeholder leads to END.
C2_BlockSkipsExtraction ==
    (gate.posture = "BLOCK" \/ gate.privacy = "BLOCK") =>
        /\ Range(executed) \cap ExtractionSideNodes = {}
        /\ pc \in {"privacy_scanner", "grounding_validator_placeholder", "END", "RETURNED"}
        /\ ("grounding_validator_placeholder" \in Range(executed) =>
               pc \in {"END", "RETURNED"})

\* a run that ended at the gate check after the privacy scanner blocked
C2_Witness ==
    /\ pc = "END"
    /\ gate.privacy = "BLOCK"
    /\ gate.posture = "ESCALATE"
    /\ chunks # <<>>

\* C3: whenever a register is delivered, every obligation of final_output
\* that needs review (score below 0.90, level MEDIUM or LOW, or grounding not
\* validated) has a review package carrying its obligation id.
C3_ReviewPackageForEveryFlagged ==
    pc = "END" =>
        \A i \in 1..Len(final_output) :
            needs_review(final_output[i]) =>
                \E j \in 1..Len(review_packages) :
                    review_packages[j].obligation_id = final_output[i].obligation_id

\* C4: when the final validator answers APPROVE or REVIEW_REQUIRED,
\* final_output is the whole canonical_obligations list in the same order.
C4_ReviewIsAdvisory ==
    (pc = "END" /\ gate.safety \in {"APPROVE", "REVIEW_REQUIRED"}) =>
        final_output = canonical_obligations

\* REVIEW_REQUIRED over a register of several obligations, one of them with a
\* score below the review threshold
C4_Witness ==
    /\ pc = "END"
    /\ gate.safety = "REVIEW_REQUIRED"
    /\ Len(final_output) >= 2
    /\ \E i \in 1..Len(final_output) : final_output[i].confidence_score < ReviewThreshold
    /\ \E i \in 1..Len(final_output) : final_output[i].confidence_score >= ReviewThreshold

\* the citations a canonical obligation carries: its single source_grounding
CitationsOn(c) == {c.source_grounding}

\* C5: a merged canonical obligation retains the source grounding of every
\* obligation of its cluster.
C5_MergeKeepsEveryCitation ==
    \A c \in MergedCanonicals :
        { o.source_grounding : o \in Members(c) } \subseteq CitationsOn(c)

\* C6: the confidence_score of a merged canonical obligation is the maximum
\* of the scores of the obligations of its cluster, and lies within [0, 1].
C6_ScoreIsClusterMaximum ==
    \A c \in MergedCanonicals :
        /\ Members(c) # {}
        /\ \A o \in Members(c) : o.confidence_score <= c.confidence_score
        /\ \E o \in Members(c) : o.confidence_score = c.confidence_score
        /\ c.confidence_score \in 0..100

\* a merge whose first obligation has a lower score than another member
C6_Witness ==
    \E c \in MergedCanonicals :
        \E o \in Members(c) :
            /\ o.obligation_id = c.source_obligation_ids[1]
            /\ o.confidence_score < c.confidence_score

\* C7: obligations whose subjects differ, or whose triggers differ, are never
\* merged into one canonical obligation, whatever the synthesis answers.
C7_NoMergeAcrossSubjectOrTrigger ==
    \A c \in MergedCanonicals :
        \A o1, o2 \in Members(c) :
            /\ o1.structure.subject = o2.structure.subject
            /\ o1.structure.trigger = o2.structure.trigger

\* the obligations differ in nothing but the numeric standard (and their ids)
DifferOnlyInStandard(o1, o2) ==
    [o1 EXCEPT !.obligation_id = TempId, !.structure.standard = 0] =
    [o2 EXCEPT !.obligation_id = TempId, !.structure.standard = 0]

\* C8: when the obligations of a merged cluster differ only in the numeric
\* standard, strictest_standard of the canonical obligation is the largest of
\* their values.
C8_StrictestStandardIsLargest ==
    \A c \in MergedCanonicals :
        (/\ \A o1, o2 \in Members(c) : DifferOnlyInStandard(o1, o2)
         /\ \E o1, o2 \in Members(c) : o1.structure.standard # o2.structure.standard) =>
            /\ \A o \in Members(c) : o.structure.standard <= c.strictest_standard
            /\ \E o \in Members(c) : o.structure.standard = c.strictest_standard

IdsIn(obls, ns) ==
    { obls[i].obligation_id[2] : i \in { j \in 1..Len(obls) : obls[j].obligation_id[1] = ns } }

PairwiseDistinctIds(obls) ==
    \A i, j \in 1..Len(obls) : i # j => obls[i].obligation_id # obls[j].obligation_id

\* C9 as stated: in every final register the ids are pairwise distinct and,
\* within the OBL namespace and within the CANONICAL namespace, are exactly
\* 1 .. the number of ids of that namespace.
C9_IdsContiguousFromOne ==
    pc = "END" =>
        /\ PairwiseDistinctIds(final_output)
        /\ \A ns \in {"OBL", "CANONICAL"} :
              IdsIn(final_output, ns) = 1..Cardinality(IdsIn(final_output, ns))

\* C9 as amended: in every final register the ids are pairwise distinct; an
\* OBL id keeps the number extraction gave it (within 1 .. number of extracted
\* obligations) and a CANONICAL id carries the 1-based position of its cluster
\* in the cluster list.
C9_IdsDistinctAndStable ==
    pc = "END" =>
        /\ PairwiseDistinctIds(final_output)
        /\ IdsIn(final_output, "OBL") \subseteq 1..Len(obligations)
        /\ \A i \in 1..Len(final_output) :
              LET c == final_output[i] IN
              IsMerged(c) =>
                 /\ c.obligation_id[2] \in 1..Len(clusters)
                 /\ c.source_obligation_ids =
                       [m \in 1..Len(clusters[c.obligation_id[2]]) |->
                           OblId(clusters[c.obligation_id[2]][m] + 1)]

\* a register of a singleton cluster followed by a merged cluster
C9_Witness ==
    /\ pc = "END"
    /\ Len(final_output) = 2
    /\ final_output[1].obligation_id = OblId(1)
    /\ final_output[2].obligation_id = CanonicalId(2)

Dispatched == 1..Len(Prefix(detected_obligations, ExtractionLimit))

\* C10: an obligation carries an assigned id only once every dispatched
\* extraction item has resolved and been gathered, and the ids of the stage's
\* output are exactly OBL-0001 .. OBL-n in list order, n being the number of
\* obligations the items returned.
C10_IdsAssignedAfterBarrier ==
    /\ \A o \in Range(final_obligations) \cup Range(obligations) :
          o.obligation_id # TempId =>
              /\ futures = {}
              /\ DOMAIN resolved = Dispatched
    /\ pc = "normalization" =>
          /\ \A i \in 1..Len(obligations) : obligations[i].obligation_id = OblId(i)
          /\ Len(obligations) = Len(Concat([i \in Dispatched |-> resolved[i]]))

\* the stage has ended after an item failed and later items succeeded
C10_Witness ==
    /\ pc = "normalization"
    /\ Len(detected_obligations) = MaxDetected
    /\ resolved[1] = <<>>
    /\ Len(resolved[2]) = 2
    /\ Len(obligations) >= 3

\* every obligation of a list is grounded in an excerpt of at least
\* MinExcerptLength characters and scored within [0, 1]
WellGrounded(obls) ==
    \A o \in Range(obls) :
        /\ ExcerptLength[o.source_grounding] >= MinExcerptLength
        /\ 0 <= o.confidence_score /\ o.confidence_score <= 100

PositionsOf(cl, idx) ==
    { p \in (1..Len(cl)) \X (0..MaxClusterInput + 1) :
        p[2] \in 1..Len(cl[p[1]]) /\ cl[p[1]][p[2]] = idx }

\* C12: the clusterer's output is a partition of the indices 0 .. n-1: every
\* index is in exactly one cluster, at exactly one position, no cluster is
\* empty and no other index occurs; no obligations give no clusters and one
\* obligation gives the single cluster [0].
C12_ClustersPartitionIndices ==
    pc \in {"clustered", "reclustered"} =>
        LET n == Len(obligations) IN
        /\ \A idx \in 0..(n - 1) : Cardinality(PositionsOf(clusters, idx)) = 1
        /\ \A k \in 1..Len(clusters) :
              /\ clusters[k] # <<>>
              /\ Range(clusters[k]) \subseteq 0..(n - 1)
        /\ n = 0 => clusters = <<>>
        /\ n = 1 => clusters = << <<0>> >>

\* the clusterer has absorbed index 2 into the first seed although index 2 is
\* also similar to the later seed 1
C12_Witness ==
    /\ pc = "clustered"
    /\ Len(obligations) = 3
    /\ similarity_matrix[<<1, 2>>] >= ClusterThreshold
    /\ clusters = << <<0, 2>>, <<1>> >>

\* clusters in increasing order of their seed (first) index, members of each
\* cluster in increasing index order
SeedOrdered(cl) ==
    /\ \A k \in 1..Len(cl) : \A m \in 1..(Len(cl[k]) - 1) : cl[k][m] < cl[k][m + 1]
    /\ \A k \in 1..(Len(cl) - 1) : cl[k][1] < cl[k + 1][1]

\* C13: clustering is deterministic and idempotent: a call returns its
\* clusters ordered by increasing seed index with members in increasing index
\* order, and a second call on the same matrix and input order returns the
\* same list of clusters as the first.
C13_ClusteringRepeatable ==
    [][ /\ pc' \in {"clustered", "reclustered"} => SeedOrdered(clusters')
        /\ pc = "clustered" => clusters' = clusters ]_vars

\* the clusterer has been called twice on four obligations and answered two
\* interleaved clusters of two
C13_Witness ==
    /\ pc = "reclustered"
    /\ clusters = << <<0, 2>>, <<1, 3>> >>

\* the extracted obligations of cluster k, in cluster order
ClusterMembers(k) == [m \in 1..Len(clusters[k]) |-> obligations[clusters[k][m] + 1]]

\* list part occurs in list whole as a run of consecutive entries
OccursIn(part, whole) ==
    \E s \in 0..(Len(whole) - Len(part)) :
        \A m \in 1..Len(part) : whole[s + m] = part[m]

\* C14: when the synthesis call for a cluster of two or more raises, the
\* cluster is not merged: each of its members is in canonical_obligations
\* unchanged, under its original id, and no canonical obligation carries the
\* cluster's number; every other cluster still gets its own outcome, a
\* cluster whose synthesis merged being replaced by its one canonical
\* obligation and a cluster of one being passed through.
C14_FailedSynthesisKeepsMembers ==
    \A k \in synthesis_failed :
        /\ Len(clusters[k]) >= 2
        /\ OccursIn(ClusterMembers(k), canonical_obligations)
        /\ \A c \in Range(canonical_obligations) : c.obligation_id # CanonicalId(k)
        /\ \A j \in (1..Len(clusters)) \ {k} :
              \/ OccursIn(ClusterMembers(j), canonical_obligations)
              \/ \E c \in Range(canonical_obligations) :
                    /\ c.obligation_id = CanonicalId(j)
                    /\ c.source_obligation_ids =
                          [m \in 1..Len(clusters[j]) |-> ClusterMembers(j)[m].obligation_id]
        /\ Len(canonical_obligations) =
              Len(Concat([j \in 1..Len(clusters) |->
                  IF \E c \in Range(canonical_obligations) : c.obligation_id = CanonicalId(j)
                  THEN <<j>> ELSE clusters[j]]))

\* of two clusters of two, the synthesis of the first raised and the second
\* was merged
C14_Witness ==
    /\ pc = "applicability_analysis"
    /\ Len(clusters) = 2
    /\ synthesis_failed = {1}
    /\ Len(canonical_obligations) = 3
    /\ canonical_obligations[3].obligation_id = CanonicalId(2)

\* the detection stage has run
Detected == "obligation_detection" \in Range(executed)

\* the entries of the detected collection that carry the id of chunk i
TaggedWith(i) ==
    SelectSeq(detected_obligations, LAMBDA d : d.chunk_id = chunks[i].id)

\* C15: a detection call that fails skips its passage only: the detected
\* collection the stage writes holds, for every dispatched passage whose call
\* succeeded, exactly the obligations of its answer, each tagged with that
\* passage's chunk id, and nothing for a passage whose call raised.
C15_FailedDetectionSkipsOnlyItsChunk ==
    Detected =>
        LET dispatched == 1..Len(Prefix(chunks, DetectionLimit)) IN
        /\ DOMAIN detections = dispatched
        /\ \A i \in dispatched :
              TaggedWith(i) =
                  IF detections[i].raised THEN <<>>
                  ELSE [d \in 1..detections[i].obligations |->
                          [chunk_id |-> chunks[i].id, detected |-> d]]
        /\ \A d \in Range(detected_obligations) :
              \E i \in dispatched : d.chunk_id = chunks[i].id

\* of two passages the call for the first raised and the second one's
\* obligation was detected
C15_Witness ==
    /\ pc = "atomic_extraction_scoring"
    /\ Len(chunks) = 2
    /\ detections[1].raised
    /\ detected_obligations = <<[chunk_id |-> chunks[2].id, detected |-> 1]>>

\* C16: items beyond a stage's cap pass through: once detection has run every
\* retrieved chunk, also one after the first 50, has been handed to a
\* detection call, and once atomic extraction has ended every detected
\* obligation, also one after the first 100, has been handed to a worker whose
\* result is part of the stage's output.
C16_OverflowPassesThrough ==
    /\ Detected => \A i \in 1..Len(chunks) : i \in DOMAIN detections
    /\ pc = "normalization" =>
          \A i \in 1..Len(detected_obligations) : i \in DOMAIN resolved

\* the obligation is obl, or obl with its applicability fields set
SameOrAnalysed(after, obl) == after \in {obl, process_obl(obl, TRUE)}

\* C17: the applicability analyzer never truncates: its output has the length
\* of its input and the same obligation ids in the same order; each of the
\* first 50 entries is its input obligation, at most with the analysis
\* fields set, and every entry beyond the 50th is its input entry unmodified.
C17_ApplicabilityNeverTruncates ==
    [][ (pc = "applicability_analysis" /\ pc' = "safety_validation") =>
          /\ Len(canonical_obligations') = Len(canonical_obligations)
          /\ \A i \in 1..Len(canonical_obligations) :
                /\ canonical_obligations'[i].obligation_id =
                       canonical_obligations[i].obligation_id
                /\ SameOrAnalysed(canonical_obligations'[i], canonical_obligations[i])
                /\ i > ApplicabilityLimit =>
                       canonical_obligations'[i] = canonical_obligations[i] ]_vars

\* of 51 obligations the 50th has been analysed and the 51st is in the output
\* as it came in
C17_Witness ==
    /\ pc = "safety_validation"
    /\ Len(canonical_obligations) = ApplicabilityLimit + 1
    /\ canonical_obligations[ApplicabilityLimit].applicability_rules = "ANALYSED"
    /\ canonical_obligations[ApplicabilityLimit + 1].applicability_rules = "TBD"
    /\ canonical_obligations[ApplicabilityLimit + 1].obligation_id =
          OblId(ApplicabilityLimit + 1)

\* C18: the response of run_enterprise_compliance_system always includes a
\* total-obligation count and an error list (possibly empty), on every path:
\* a completed run, a BLOCK and a run in which the workflow raises.
C18_ResponseHasCountAndErrors ==
    pc = "RETURNED" =>
        /\ "errors" \in DOMAIN response
        /\ "metadata" \in DOMAIN response
        /\ "total_obligations" \in DOMAIN response.metadata

\* C19: a gate answering ESCALATE appends one flag to trust_flags,
\* POSTURE_ESCALATION or PRIVACY_ESCALATION, and does not halt the run: that
\* gate leaves should_continue, errors and final_output unchanged and hands
\* over to the next node, and when no gate answered BLOCK the run proceeds
\* from the gates to obligation detection.
C19_EscalateFlagsWithoutHalting ==
    [][ /\ (pc = "posture_enforcer" /\ gate'.posture = "ESCALATE") =>
              /\ trust_flags' = Append(trust_flags, "POSTURE_ESCALATION")
              /\ UNCHANGED <<should_continue, errors, final_output>>
              /\ pc' = "privacy_scanner"
        /\ (pc = "privacy_scanner" /\ gate'.privacy = "ESCALATE") =>
              /\ trust_flags' = Append(trust_flags, "PRIVACY_ESCALATION")
              /\ UNCHANGED <<should_continue, errors, final_output>>
              /\ pc' = "grounding_validator_placeholder"
        /\ (/\ pc = "grounding_validator_placeholder"
            /\ "ESCALATE" \in {gate.posture, gate.privacy}
            /\ "BLOCK" \notin {gate.posture, gate.privacy}) =>
              pc' = "obligation_detection" ]_vars

\* both gates escalated and the run has reached obligation detection
C19_Witness ==
    /\ pc = "obligation_detection"
    /\ gate.posture = "ESCALATE"
    /\ gate.privacy = "ESCALATE"
    /\ trust_flags = <<"POSTURE_ESCALATION", "PRIVACY_ESCALATION">>
    /\ should_continue

\* C20: the gate sequence is strictly linear with BLOCKED terminal: once the
\* posture enforcer has answered BLOCK no further gate or stage is invoked,
\* the privacy scan included, so the posture enforcer stays the last node
\* that ran.
C20_PostureBlockIsTerminal ==
    gate.posture = "BLOCK" => executed[Len(executed)] = "posture_enforcer"

\* C21: BLOCKED is absorbing: once should_continue is false no later step of
\* the run sets it back to true, and an error entry that contains "BLOCKED"
\* stays in errors at its position.
C21_BlockedIsAbsorbing ==
    [][ /\ ~should_continue => ~should_continue'
        /\ \A i \in 1..Len(errors) :
              ContainsBLOCKED(errors[i]) =>
                  /\ i <= Len(errors')
                  /\ errors'[i] = errors[i] ]_vars

\* the posture enforcer blocked, the privacy scan ran after it and failed, and
\* the run has returned
C21_Witness ==
    /\ pc = "RETURNED"
    /\ gate.posture = "BLOCK"
    /\ gate.privacy = "RAISED"
    /\ ~should_continue
    /\ Len(errors) >= 2
    /\ ContainsBLOCKED(errors[Len(errors) - 1])
    /\ ~ContainsBLOCKED(errors[Len(errors)])

\* the seeds (first members) of a list of clusters
Seeds(cl) == { cl[k][1] : k \in 1..Len(cl) }

\* C22: clustering is seed-based: the seed of each cluster is its smallest
\* index; every other member j of a cluster with seed s has s < j and
\* similarity(s, j) at or above the threshold; and no seed lower than s has
\* similarity at or above the threshold to j, so j sits with the lowest such
\* seed. Similarity between non-seed members plays no part.
C22_ClusteringIsSeedBased ==
    pc \in {"clustered", "reclustered"} =>
        \A k \in 1..Len(clusters) :
            LET s == clusters[k][1] IN
            \A m \in 2..Len(clusters[k]) :
                LET j == clusters[k][m] IN
                /\ s < j
                /\ similarity_matrix[<<s, j>>] >= ClusterThreshold
                /\ \A r \in Seeds(clusters) :
                      r < s => similarity_matrix[<<r, j>>] < ClusterThreshold

\* one cluster holds two non-seed members that are below the threshold to
\* each other, and index 3, similar to the non-seed member 1 only, is a seed
C22_Witness ==
    /\ pc = "clustered"
    /\ Len(obligations) = 4
    /\ clusters = << <<0, 1, 2>>, <<3>> >>
    /\ similarity_matrix[<<1, 2>>] < ClusterThreshold
    /\ similarity_matrix[<<1, 3>>] >= ClusterThreshold

\* the per-item results in submission order, numbered from 1
NumberedInSubmissionOrder ==
    AssignIds(Concat([i \in 1..Len(Prefix(detected_obligations, ExtractionLimit)) |->
                         resolved[i]]))

\* C23: the id of each atomic obligation is deterministic: it is fixed by the
\* per-item extraction results alone, so whatever the order in which the
\* workers complete, the stage's output is those results numbered in the
\* order of the items.
C23_IdsIndependentOfCompletionOrder ==
    pc = "normalization" => obligations = NumberedInSubmissionOrder

\* the ids of a list of obligations, in order
IdsOf(obls) == [i \in 1..Len(obls) |-> obls[i].obligation_id]

\* the pairs of extracted obligations that are both in the final register
\* although their statements are similar at or above the threshold
SimilarPairsDelivered ==
    { p \in (1..Len(obligations)) \X (1..Len(obligations)) :
        /\ p[1] < p[2]
        /\ {obligations[p[1]].obligation_id, obligations[p[2]].obligation_id}
              \subseteq Range(IdsOf(final_output))
        /\ similarity_matrix[<<p[1] - 1, p[2] - 1>>] >= ClusterThreshold }

\* cluster k was replaced by a canonical obligation
ClusterMerged(k) ==
    \E c \in Range(canonical_obligations) : c.obligation_id = CanonicalId(k)

\* C24 as stated: two obligations of a final register are similar at or above
\* the merge threshold only if they were clustered together and the
\* synthesizer answered, refusing to merge them.
C24_SimilarOnlyIfRefused ==
    \A p \in SimilarPairsDelivered :
        \E k \in 1..Len(clusters) :
            /\ {p[1] - 1, p[2] - 1} \subseteq Range(clusters[k])
            /\ k \notin synthesis_failed
            /\ ~ClusterMerged(k)

\* C24 amended: if two extracted obligations similar at or above the merge
\* threshold are both in a final register, at least one of them belongs to a
\* cluster of two or more that was not merged (the synthesizer refused, or
\* its call failed); and no stage after normalization merges: the ids of
\* canonical_obligations stay as normalization left them and the register is
\* that list or empty.
C24_SimilarOnlyWhereNotMerged ==
    [][ /\ \A p \in SimilarPairsDelivered' :
              \E k \in 1..Len(clusters') :
                  /\ Len(clusters'[k]) >= 2
                  /\ {p[1] - 1, p[2] - 1} \cap Range(clusters'[k]) # {}
                  /\ ~ClusterMerged(k)'
        /\ pc \in {"applicability_analysis", "safety_validation"} =>
              /\ IdsOf(canonical_obligations') = IdsOf(canonical_obligations)
              /\ final_output' \in {<<>>, canonical_obligations'} ]_vars

\* a register was delivered with two similar obligations of one cluster whose
\* synthesis call had failed
C24_Witness ==
    /\ pc = "END"
    /\ synthesis_failed = {1}
    /\ Len(final_output) >= 2
    /\ SimilarPairsDelivered # {}

\* C25: an item-level failure in a fan-out stage does not abort the run and
\* is recorded in the shared error list: the step of detection in which the
\* call for some chunk raised, and the step of normalization in which the
\* synthesis call for some cluster raised, each lead on to the next stage and
\* leave errors longer than they found it.
C25_ItemFailuresAreRecorded ==
    [][ /\ (pc = "obligation_detection" /\ \E i \in DOMAIN detections' : detections'[i].raised) =>
              /\ pc' = "atomic_extraction_scoring"
              /\ Len(errors') > Len(errors)
        /\ (pc = "normalization" /\ synthesis_failed' # {}) =>
              /\ pc' = "applicability_analysis"
              /\ Len(errors') > Len(errors) ]_vars

\* the number of detected statements the dispatched chunks' calls answered
RECURSIVE AnsweredUpTo(_)
AnsweredUpTo(i) ==
    IF i = 0 THEN 0
    ELSE AnsweredUpTo(i - 1)
           + (IF detections[i].raised THEN 0 ELSE detections[i].obligations)

\* C26: a fan-out stage is a barrier: detection hands over a collection that
\* holds the answers of every dispatched chunk; while extraction items are
\* outstanding the shared obligations list is still as the stage found it;
\* and normalization is entered only when every dispatched item has resolved
\* and been gathered, with all their results in obligations.
C26_FanOutStagesAreBarriers ==
    /\ Detected =>
          /\ DOMAIN detections = 1..Len(Prefix(chunks, DetectionLimit))
          /\ Len(detected_obligations) = AnsweredUpTo(Len(detections))
    /\ pc = "atomic_extraction_scoring.as_completed" => obligations = <<>>
    /\ pc = "normalization" =>
          /\ futures = {}
          /\ DOMAIN resolved = Dispatched
          /\ Len(obligations) = Len(Concat([i \in Dispatched |-> resolved[i]]))

\* two chunks were detected on, both extraction items resolved, one of them
\* empty, and the stage has handed over to normalization
C26_Witness ==
    /\ pc = "normalization"
    /\ Len(chunks) = 2
    /\ Len(detected_obligations) = 2
    /\ resolved[1] = <<>>
    /\ Len(resolved[2]) = 2
    /\ Len(obligations) = 2

\* an obligation as its worker returned it, before any id was assigned
Unnumbered(obl) == [obl EXCEPT !.obligation_id = TempId]

\* how often obligation x occurs in a list, ids aside
Occurrences(x, obls) ==
    Cardinality({ i \in 1..Len(obls) : Unnumbered(obls[i]) = x })

\* the items whose future as_completed has already handed over
Gathered == DOMAIN resolved \ futures

\* the results of the gathered items, in item order
GatheredResults ==
    Concat([i \in 1..Len(detected_obligations) |->
               IF i \in Gathered THEN resolved[i] ELSE <<>>])

\* C27: under every interleaving of worker completions the list the stage
\* gathers holds each gathered item's results exactly once: every obligation
\* occurs in it as often as in the results of the gathered items, no
\* insertion lost and none duplicated, while it is being gathered and when
\* it is handed over as obligations.
C27_ResultsGatheredExactlyOnce ==
    pc \in {"atomic_extraction_scoring.as_completed", "normalization"} =>
        /\ Len(final_obligations) = Len(GatheredResults)
        /\ \A x \in Range(GatheredResults) \cup
                      { Unnumbered(o) : o \in Range(final_obligations) } :
              Occurrences(x, final_obligations) = Occurrences(x, GatheredResults)
        /\ pc = "normalization" => obligations = final_obligations

\* three items, two of them with the same results, were gathered in another
\* order than they were submitted in
C27_Witness ==
    /\ pc = "normalization"
    /\ Len(detected_obligations) = 3
    /\ resolved[1] = resolved[3]
    /\ Len(resolved[1]) = 1
    /\ Len(resolved[2]) = 2
    /\ resolved[2][1] # resolved[1][1]
    /\ Unnumbered(obligations[1]) = resolved[2][1]

\* C28: atomic extraction is all-or-nothing per detected obligation: an item
\* resolves either to nothing or to obligations that all validate, each with
\* a confidence result and all with the one source grounding they share.
C28_AllOrNothingWithSharedGrounding ==
    \A i \in DOMAIN resolved :
        /\ WellGrounded(resolved[i])
        /\ \A a, b \in Range(resolved[i]) :
              /\ a.confidence_level \in ConfidenceLevel
              /\ a.source_grounding = b.source_grounding

\* process_cluster called the synthesis chain for cluster k
SynthesisCalled(k) == \E c \in synthesis_calls : c.cluster = k

\* the synthesis chain answered should_merge = false for cluster k
Refused(k) ==
    \E c \in synthesis_calls : c.cluster = k /\ ~c.raised /\ ~c.should_merge

\* C29: when the synthesizer answers should_merge = false for a cluster, the
\* members of the cluster are in canonical_obligations, unchanged and under
\* their original ids, and no canonical obligation carries the cluster's
\* number.
C29_RefusedClusterPassesThrough ==
    \A k \in 1..Len(clusters) :
        Refused(k) =>
            /\ Len(clusters[k]) >= 2
            /\ OccursIn(ClusterMembers(k), canonical_obligations)
            /\ \A m \in 1..Len(clusters[k]) : ~IsMerged(ClusterMembers(k)[m])
            /\ ~ClusterMerged(k)

\* of two clusters of two, the synthesizer refused the first and merged the
\* second
C29_Witness ==
    /\ pc = "applicability_analysis"
    /\ Len(clusters) = 2
    /\ Refused(1)
    /\ Len(canonical_obligations) = 3
    /\ canonical_obligations[3].obligation_id = CanonicalId(2)

\* C30: every merged canonical obligation stands for one cluster and records
\* in source_obligation_ids the ids of that cluster's obligations, all of
\* them and no other; a cluster of one has its obligation in
\* canonical_obligations unchanged, and no synthesis call was made for it.
C30_CanonicalRecordsItsCluster ==
    /\ \A c \in MergedCanonicals :
          \E k \in 1..Len(clusters) :
              /\ c.obligation_id = CanonicalId(k)
              /\ Len(clusters[k]) >= 2
              /\ SynthesisCalled(k)
              /\ c.source_obligation_ids = IdsOf(ClusterMembers(k))
    /\ \A k \in 1..Len(clusters) :
          Len(clusters[k]) = 1 =>
              /\ OccursIn(ClusterMembers(k), canonical_obligations)
              /\ ~SynthesisCalled(k)
              /\ ~ClusterMerged(k)

\* a cluster of three was merged next to a cluster of one
C30_Witness ==
    /\ pc = "applicability_analysis"
    /\ Len(clusters) = 2
    /\ Len(clusters[1]) = 3
    /\ Len(clusters[2]) = 1
    /\ Len(canonical_obligations) = 2
    /\ Len(canonical_obligations[1].source_obligation_ids) = 3

\* C31: an applicability call that raises for one obligation leaves that
\* obligation's analysis fields as they were, and the other obligations of
\* the batch are still analysed; the analyzer changes no obligation's id,
\* source grounding, structure or confidence.
C31_FailedAnalysisLeavesFields ==
    [][ (pc = "applicability_analysis" /\ pc' = "safety_validation") =>
          \A i \in 1..Len(canonical_obligations) :
              LET before == canonical_obligations[i]
                  after == canonical_obligations'[i]
              IN  /\ i \in analysis_raised' =>
                        after.applicability_rules = before.applicability_rules
                  /\ (i <= ApplicabilityLimit /\ i \notin analysis_raised') =>
                        after.applicability_rules = "ANALYSED"
                  /\ after.obligation_id = before.obligation_id
                  /\ after.source_grounding = before.source_grounding
                  /\ after.structure = before.structure
                  /\ after.confidence_level = before.confidence_level
                  /\ after.confidence_score = before.confidence_score ]_vars

\* of three obligations the call for the second raised and the other two
\* were analysed
C31_Witness ==
    /\ pc = "safety_validation"
    /\ analysis_raised = {2}
    /\ Len(canonical_obligations) = 3
    /\ canonical_obligations[1].applicability_rules = "ANALYSED"
    /\ canonical_obligations[2].applicability_rules = "TBD"
    /\ canonical_obligations[3].applicability_rules = "ANALYSED"

\* C32: every run gets past the barrier of a fan-out stage, also when an
\* external call of one of its workers never returns: the extraction stage
\* eventually hands over to normalization.
C32_StageBarrierCloses == <>(pc = "normalization")

\* C33: the chunk list retrieval leaves in the state holds no two chunks with
\* the same id, whatever the searches of the plan items return and whichever
\* of them fail, also part-way through their matches.
C33_ChunksHaveDistinctIds ==
    \A i, j \in 1..Len(chunks) : i # j => chunks[i].id # chunks[j].id

\* two tasks were run, the first failed and was recorded, and two chunks
\* were retrieved
C33_Witness ==
    /\ pc = "posture_enforcer"
    /\ Len(plan) = 2
    /\ plan[1].status = "failed"
    /\ plan[2].status = "completed"
    /\ Len(errors) = 1
    /\ Len(chunks) = 2

\* one entry, not a BLOCKED one, was appended to the error list
OneErrorAppended ==
    /\ Len(errors') = Len(errors) + 1
    /\ SubSeq(errors', 1, Len(errors)) = errors
    /\ ~ContainsBLOCKED(errors'[Len(errors')])

\* C34: a trust gate whose external call raises does not block: the step
\* leaves should_continue as it was and appends exactly one error entry; the
\* posture gate then sets trust_check_passed, and the final safety validator
\* delivers the whole of canonical_obligations as final_output.
C34_GatesFailOpen ==
    [][ /\ (pc = "posture_enforcer" /\ gate'.posture = "RAISED") =>
              /\ should_continue' = should_continue
              /\ OneErrorAppended
              /\ trust_check_passed'
              /\ pc' = "privacy_scanner"
        /\ (pc = "privacy_scanner" /\ gate'.privacy = "RAISED") =>
              /\ should_continue' = should_continue
              /\ OneErrorAppended
              /\ pc' = "grounding_validator_placeholder"
        /\ (pc = "safety_validation" /\ gate'.safety = "RAISED") =>
              /\ should_continue' = should_continue
              /\ OneErrorAppended
              /\ final_output' = canonical_obligations
              /\ canonical_obligations' = canonical_obligations ]_vars

\* the calls of all three gates raised and the run delivered its register
C34_Witness ==
    /\ pc = "END"
    /\ gate = [posture |-> "RAISED", privacy |-> "RAISED", safety |-> "RAISED"]
    /\ should_continue
    /\ trust_check_passed
    /\ final_output # <<>>
    /\ final_output = canonical_obligations

\* the number of merged canonical obligations that list id among their
\* source_obligation_ids
ListedIn(id, obls) ==
    Cardinality({ k \in 1..Len(obls) :
                    /\ IsMerged(obls[k])
                    /\ id \in Range(obls[k].source_obligation_ids) })

\* the number of positions of obls that hold the obligation obl, unchanged
PresentIn(obl, obls) == Cardinality({ k \in 1..Len(obls) : obls[k] = obl })

\* C35: normalization conserves obligations: once it has completed, every
\* extracted obligation is either in canonical_obligations, unchanged and
\* once, or listed in source_obligation_ids of exactly one merged canonical
\* obligation; never both and never neither.
C35_NormalizationConserves ==
    pc = "applicability_analysis" =>
        \A i \in 1..Len(obligations) :
            PresentIn(obligations[i], canonical_obligations)
              + ListedIn(obligations[i].obligation_id, canonical_obligations) = 1

\* of two clusters of two the first was merged and the synthesis of the
\* second raised
C35_Witness ==
    /\ pc = "applicability_analysis"
    /\ Len(clusters) = 2
    /\ ClusterMerged(1)
    /\ synthesis_failed = {2}
    /\ Len(canonical_obligations) = 3

\* every obligation held anywhere in the state
AllObligations ==
    Range(obligations) \cup Range(canonical_obligations) \cup Range(final_output)
        \cup Range(final_obligations)
        \cup UNION { Range(resolved[i]) : i \in DOMAIN resolved }

\* C36: no stage sets grounding_validated or human_reviewed of an obligation
\* to true; hence, when the final safety validator has completed without
\* raising, review_packages holds one package per canonical obligation, in
\* order, whatever the confidence values are.
C36_EveryObligationIsPackaged ==
    /\ \A o \in AllObligations :
          /\ ~o.trust_validation.grounding_validated
          /\ ~o.human_reviewed
    /\ (pc = "END" /\ gate.safety \in SafetyActions) =>
          /\ Len(review_packages) = Len(canonical_obligations)
          /\ \A i \in 1..Len(canonical_obligations) :
                review_packages[i].obligation_id = canonical_obligations[i].obligation_id

\* the validator answered without blocking for a register that holds an
\* obligation of high confidence, which was packaged for review all the same
C36_Witness ==
    /\ pc = "END"
    /\ gate.safety \in SafetyActions \ {"BLOCK"}
    /\ Len(canonical_obligations) >= 2
    /\ \E i \in 1..Len(canonical_obligations) :
          /\ canonical_obligations[i].confidence_level = "HIGH"
          /\ canonical_obligations[i].confidence_score >= ReviewThreshold
          /\ review_packages[i].obligation_id = canonical_obligations[i].obligation_id
          /\ review_packages[i].reason = <<>>

\* the 1-based position of the cluster an entry of canonical_obligations
\* stems from: the number in a merged obligation's id, else the cluster that
\* holds the index of the extracted obligation it is
ClusterOf(c) ==
    IF IsMerged(c) THEN c.obligation_id[2]
    ELSE CHOOSE k \in 1..Len(clusters) :
             \E m \in 1..Len(clusters[k]) : obligations[clusters[k][m] + 1] = c

\* the 0-based index an entry of canonical_obligations has in obligations;
\* for a merged obligation, the seed of its cluster
IndexOf(c) ==
    IF IsMerged(c) THEN clusters[c.obligation_id[2]][1]
    ELSE CHOOSE i \in 0..(Len(obligations) - 1) : obligations[i + 1] = c

\* C37: the order of canonical_obligations and the canonical ids are fixed by
\* the clusters alone: the clusters are in increasing seed order, the entries
\* stand in the order of their clusters and, within a cluster left separate,
\* in index order; a merged obligation carries the 1-based position of its
\* cluster, whose members it lists, so no two merged obligations share an id.
C37_CanonicalOrderFollowsClusters ==
    pc = "applicability_analysis" =>
        /\ SeedOrdered(clusters)
        /\ \A p \in 1..Len(canonical_obligations) :
              LET c == canonical_obligations[p] IN
              /\ ClusterOf(c) \in 1..Len(clusters)
              /\ IsMerged(c) =>
                    c.source_obligation_ids = IdsOf(ClusterMembers(ClusterOf(c)))
        /\ \A p, q \in 1..Len(canonical_obligations) :
              p < q =>
                LET c == canonical_obligations[p]
                    d == canonical_obligations[q]
                IN  /\ c.obligation_id # d.obligation_id
                    /\ \/ ClusterOf(c) < ClusterOf(d)
                       \/ /\ ClusterOf(c) = ClusterOf(d)
                          /\ IndexOf(c) < IndexOf(d)

\* two clusters of two were both merged, the first with seed 0 and member 2
C37_Witness ==
    /\ pc = "applicability_analysis"
    /\ clusters = << <<0, 2>>, <<1, 3>> >>
    /\ Len(canonical_obligations) = 2
    /\ canonical_obligations[1].obligation_id = CanonicalId(1)
    /\ canonical_obligations[2].obligation_id = CanonicalId(2)

\* C38: any two distinct cluster seeds have similarity below the threshold;
\* in particular any two obligations that are each a cluster of one.
C38_SeedsAreDissimilar ==
    pc \in {"clustered", "reclustered"} =>
        /\ \A s, t \in Seeds(clusters) :
              s # t => similarity_matrix[<<s, t>>] < ClusterThreshold
        /\ \A k, l \in 1..Len(clusters) :
              (k # l /\ Len(clusters[k]) = 1 /\ Len(clusters[l]) = 1) =>
                  similarity_matrix[<<clusters[k][1], clusters[l][1]>>] < ClusterThreshold

\* a cluster of two was followed by two clusters of one
C38_Witness ==
    /\ pc = "clustered"
    /\ clusters = << <<0, 1>>, <<2>>, <<3>> >>
    /\ similarity_matrix[<<1, 2>>] >= ClusterThreshold

\* C39: the think/act loop is bounded: think_step runs at most
\* max_iterations times, the loop ends with the first act step that leaves a
\* final answer, and a run whose loop ended at the iteration limit without a
\* final answer still returns a non-empty answer.
C39_LoopBoundedAndAnswered ==
    [][ /\ agent_state'.iteration <= max_iterations
        /\ Len(agent_state'.thoughts) <= max_iterations
        /\ (pc = "act" /\ agent_state'.final_answer # "") => pc' = "react.END"
        /\ pc' = "think" => agent_state'.final_answer = ""
        /\ ( /\ pc = "react.END"
             /\ pc' = "react.RETURNED"
             /\ agent_state.final_answer = ""
             /\ agent_state.iteration >= max_iterations ) =>
                 agent_result'.answer # "" ]_vars

\* C40: every act step executes an action that the think step of the same
\* iteration planned: each recorded observation carries the iteration of the
\* action it executed, also when a think step failed.
C40_ActsOnActionOfSameIteration ==
    \A k \in 1..Len(agent_state.observations) :
        agent_state.observations[k].iteration =
            agent_state.observations[k].action_iteration

====
